---- MODULE Spec2Model ----
(***************************************************************************)
(* gofer: a local HTTP gateway to Gopherspace.                             *)
(*                                                                         *)
(* Two specifications live in this module.                                 *)
(*   Spec      the process lifecycle: launches of the gofer binary, the    *)
(*             singleton check on the local port, the forward a second     *)
(*             launch sends to the running one, the request handlers and   *)
(*             the inactivity monitor, over a discrete clock of seconds.   *)
(*   SpecMenu  formatMenuHTML run on a reply text, one loop iteration per  *)
(*             step.                                                       *)
(*                                                                         *)
(* Strings are sequences of one-character strings.  Code between two       *)
(* blocking points takes no time but interleaves freely with every other   *)
(* goroutine and process; time passes only while every goroutine waits     *)
(* (in Serve, on the ticker, in a transport call, in http.Get).  Instead   *)
(* of the wall clock the model keeps, per process, the two differences the *)
(* code computes from it: the time since lastRequestTime and the time      *)
(* until the monitor's ticker fires.                                       *)
(***************************************************************************)
EXTENDS Integers, Sequences, FiniteSets, TLC

\* ------------------------------------------------------------------------
\* Bounds of the model
\* ------------------------------------------------------------------------
NumProcs == 2
MaxInFlight == 1

\* ------------------------------------------------------------------------
\* Configuration constants of the program
\* ------------------------------------------------------------------------
SHUTDOWN_TIMEOUT_SECONDS == 60
TICKER_SECONDS == 5
DEFAULT_GOPHER_HOST == <<"f","r","e","e","s","h","e","l","l",".","o","r","g">>
DEFAULT_GOPHER_PORT == <<"7","0">>
FOCUS_ENDPOINT == "/focus"

Procs == 1..NumProcs
Browser == 0

\* ------------------------------------------------------------------------
\* String helpers
\* ------------------------------------------------------------------------
TrimPrefix(s, c) == IF Len(s) > 0 /\ s[1] = c THEN Tail(s) ELSE s

\* ------------------------------------------------------------------------
\* Command lines.  os.Args[1], when present, is a string that url.Parse
\* either rejects (parses = FALSE) or splits into scheme, host name, port
\* and path.
\* ------------------------------------------------------------------------
NoArg == [present |-> FALSE, parses |-> FALSE, scheme |-> "",
          hostname |-> <<>>, port |-> <<>>, path |-> <<>>]
GopherNoPort == [present |-> TRUE, parses |-> TRUE, scheme |-> "gopher",
          hostname |-> <<"a">>, port |-> <<>>, path |-> <<"/","1","/","x">>]
HttpURI == [present |-> TRUE, parses |-> TRUE, scheme |-> "http",
          hostname |-> <<"a">>, port |-> <<>>, path |-> <<"/">>]
Args == {NoArg, GopherNoPort, HttpURI}

\* err == nil && u.Scheme == "gopher"
IsGopherURI(u) == u.parses /\ u.scheme = "gopher"

\* Variant: the port is taken as written, without the default.
LocalURL_NoDefaultPort(u) ==
    [host |-> u.hostname, port |-> u.port,
     selector |-> TrimPrefix(u.path, "/")]

\* The local URL http://localhost:8000/?host=..&port=..&selector=.. as the
\* triple of its parameters.
LocalURL(u) ==
    [host |-> u.hostname,
     port |-> IF u.port = <<>> THEN DEFAULT_GOPHER_PORT ELSE u.port,
     selector |-> TrimPrefix(u.path, "/")]

DefaultURL == [host |-> DEFAULT_GOPHER_HOST, port |-> DEFAULT_GOPHER_PORT,
               selector |-> <<"/">>]

\* Variant: the command line is not looked at.
InitialGopherURL_AlwaysDefault(a) == DefaultURL

\* main, step 1: the URL the first instance opens the browser at.
InitialGopherURL(a) ==
    IF a.present /\ IsGopherURI(a) THEN LocalURL(a) ELSE DefaultURL

\* main, step 2: the request a second instance sends to the first.
TargetURL(a) == [path |-> FOCUS_ENDPOINT, method |-> "GET", valid |-> TRUE,
                 uri |-> a]

\* ------------------------------------------------------------------------
\* HTTP routing of the primary instance
\* ------------------------------------------------------------------------
Patterns == {"/", "/focus", "/heartbeat", "/ph/", "/search"}

\* Requests a browser sends: path, method and whether the parameters the
\* handler validates are present (valid).
BrowserRequests ==
    { [path |-> "/", method |-> "GET", valid |-> TRUE, uri |-> NoArg],
      [path |-> "/heartbeat", method |-> "GET", valid |-> TRUE, uri |-> NoArg],
      [path |-> "/ph/h:105", method |-> "GET", valid |-> TRUE, uri |-> NoArg],
      [path |-> "/ph/h:105", method |-> "POST", valid |-> FALSE, uri |-> NoArg],
      [path |-> "/search", method |-> "GET", valid |-> FALSE, uri |-> NoArg],
      [path |-> "/search", method |-> "POST", valid |-> TRUE, uri |-> NoArg],
      [path |-> "/search", method |-> "POST", valid |-> FALSE, uri |-> NoArg] }


\* http.ServeMux: exact match, else longest registered subtree pattern.
Mux(path) ==
    CASE path = "/focus"     -> "handleFocus"
      [] path = "/heartbeat" -> "handleHeartbeat"
      [] path = "/search"    -> "HandleSearch"
      [] path = "/ph/h:105"  -> "handlePHEntry"
      [] OTHER               -> "serveGopher"

\* Handlers that open a transport connection and so may block.
UsesTransport(r) ==
    \/ Mux(r.path) = "serveGopher"
    \/ Mux(r.path) = "handlePHEntry" /\ (r.method = "GET" \/ r.valid)
    \/ Mux(r.path) = "HandleSearch" /\ r.method = "POST" /\ r.valid

\* Variant: the heartbeat handler does not touch the timestamp.
CallsUpdateActivity_NotHeartbeat(h) ==
    h \in {"serveGopher", "handleFocus", "handlePHEntry"}

\* Which handlers call updateActivity on entry.
CallsUpdateActivity(h) ==
    h \in {"serveGopher", "handleFocus", "handleHeartbeat", "handlePHEntry"}

VARIABLES
    pc,               \* position of each process's main goroutine
    args,             \* os.Args[1] of each process
    holds,            \* the process owns the listener on port 8000
    role,             \* outcome of the singleton check
    handlers,         \* patterns registered on the process's ServeMux
    sinceLastRequest, \* time.Since(lastRequestTime), per process
    mpc,              \* position of the monitorInactivity goroutine
    untilTick,        \* time until the monitor's ticker fires
    idleDuration,     \* the monitor's loop-local variable (0 outside its scope)
    reqs,             \* HTTP requests in flight
    resp,             \* what http.Get returned to a second instance:
                      \* 0 nothing yet, -1 an error, else the HTTP status
    attempts,         \* number of http.Get calls a process has made
    launched,         \* launchBrowser calls made for a process's launch:
                      \* by itself at startup, by a primary for its forward
    exitCode          \* -1 while the process has not exited

lvars == <<pc, args, holds, role, handlers, sinceLastRequest, mpc, untilTick,
           idleDuration, reqs, resp, attempts, launched, exitCode>>

VARIABLES
    fpc,              \* position inside formatMenuHTML
    rawGopherData,    \* its arguments
    current,          \* currentHost, currentPort, currentSelector
    embedded,
    lines,            \* strings.Split(rawGopherData, "\n")
    idx,              \* index of the line the loop is at
    html,             \* what has been written to the strings.Builder
    inLines,          \* the lines the reply was made of, as field lists
    calls,            \* 1: the first render; 2: the same call once more;
                      \* 3: the same reply and context with the other flag
    firstHtml         \* what the first of these calls returned

mvars == <<fpc, rawGopherData, current, embedded, lines, idx, html, inLines,
           calls, firstHtml>>

VARIABLES
    hpc,              \* position of the handler of the request
    request,          \* the HTTP request: method, target, form
    loc,              \* the handler's local variables
    conn,             \* the transport call in progress
    ret,              \* what the last transport call returned
    fetches,          \* the transport calls made for the request, in order
    response,         \* what has been written to the ResponseWriter
    browser           \* launchBrowser calls made while handling the request

svars == <<hpc, request, loc, conn, ret, fetches, response, browser>>

VARIABLES
    openPage,         \* the page open in the browser's tab
    untilPing,        \* seconds until that page's setInterval fires
    nav               \* the navigation the tab is waiting for

pvars == <<openPage, untilPing, nav>>

VARIABLES
    shutdownMux,      \* the goroutine that holds shutdownMux, or NoHolder
    gpc               \* position of the monitor and of each handler goroutine

kvars == <<shutdownMux, gpc>>

\* What a lifecycle step, a step of formatMenuHTML and a step of a handler
\* leave alone.
outsideLife == <<mvars, svars, pvars, kvars>>
outsideMenu == <<lvars, svars, pvars, kvars>>
outsideServe == <<lvars, pvars, kvars>>

\* No page is open and no navigation is under way.
NoPage == "none"
NoNav == [handler |-> "", elapsed |-> 0]
PageIdle ==
    /\ openPage = NoPage
    /\ untilPing = 0
    /\ nav = NoNav

\* The goroutines that use shutdownMux: the monitor and the handlers.
NumHandlers == 2
Monitor == 0
Goroutines == {Monitor} \cup (1..NumHandlers)
NoHolder == -1
LockIdle ==
    /\ shutdownMux = NoHolder
    /\ gpc = [g \in Goroutines |-> "off"]

InitLife ==
    /\ pc = [p \in Procs |-> "off"]
    /\ args = [p \in Procs |-> NoArg]
    /\ holds = [p \in Procs |-> FALSE]
    /\ role = [p \in Procs |-> "none"]
    /\ handlers = [p \in Procs |-> {}]
    /\ sinceLastRequest = [p \in Procs |-> 0]
    /\ mpc = [p \in Procs |-> "none"]
    /\ untilTick = [p \in Procs |-> 0]
    /\ idleDuration = [p \in Procs |-> 0]
    /\ reqs = {}
    /\ resp = [p \in Procs |-> 0]
    /\ attempts = [p \in Procs |-> 0]
    /\ launched = [p \in Procs |-> {}]
    /\ exitCode = [p \in Procs |-> -1]

\* ------------------------------------------------------------------------
\* Activity timestamp
\* ------------------------------------------------------------------------
\* updateActivity: lock, lastRequestTime = time.Now(), unlock.
updateActivity(p) == [sinceLastRequest EXCEPT ![p] = 0]

\* os.Exit: the process's memory, goroutines and sockets are gone.  Requests
\* it had accepted but not answered are reset, and a second instance waiting
\* in http.Get for one of them gets an error.
ProcExit(p, code) ==
    /\ pc' = [pc EXCEPT ![p] = "exited"]
    /\ exitCode' = [exitCode EXCEPT ![p] = code]
    /\ args' = [args EXCEPT ![p] = NoArg]
    /\ holds' = [holds EXCEPT ![p] = FALSE]
    /\ handlers' = [handlers EXCEPT ![p] = {}]
    /\ sinceLastRequest' = [sinceLastRequest EXCEPT ![p] = 0]
    /\ mpc' = [mpc EXCEPT ![p] = "none"]
    /\ untilTick' = [untilTick EXCEPT ![p] = 0]
    /\ idleDuration' = [idleDuration EXCEPT ![p] = 0]
    /\ attempts' = [attempts EXCEPT ![p] = 0]
    /\ launched' = [launched EXCEPT ![p] = {}]
    /\ reqs' = {r \in reqs : r.to # p}
    /\ resp' = [q \in Procs |->
                  IF \E r \in reqs : r.to = p /\ r.from = q THEN -1
                  ELSE IF q = p THEN 0 ELSE resp[q]]
    /\ UNCHANGED role

\* ------------------------------------------------------------------------
\* main
\* ------------------------------------------------------------------------
\* net.Listen succeeded: this process is the primary instance.
ListenAcquired(p) ==
    /\ holds' = [holds EXCEPT ![p] = TRUE]
    /\ role' = [role EXCEPT ![p] = "primary"]
    /\ pc' = [pc EXCEPT ![p] = "startMonitor"]

\* Variant: the error of net.Listen is ignored and main carries on with the
\* primary's initialisation.
ListenFailed_FallThrough(p) ==
    /\ holds' = holds
    /\ role' = [role EXCEPT ![p] = "secondary"]
    /\ pc' = [pc EXCEPT ![p] = "startMonitor"]

\* net.Listen failed: this process is a second instance; it builds targetURL.
ListenFailed(p) ==
    /\ holds' = holds
    /\ role' = [role EXCEPT ![p] = "secondary"]
    /\ pc' = [pc EXCEPT ![p] = "forward"]

\* A user or the OS protocol handler starts the binary with command line a.
\* Package variables are initialised (lastRequestTime = time.Now()), step 1
\* of main parses the command line and step 2 makes the singleton check:
\* the OS grants the port to one owner.
Launch(p, a) ==
    /\ pc[p] = "off"
    /\ \A q \in 1..(p - 1) : pc[q] # "off"
    /\ args' = [args EXCEPT ![p] = a]
    /\ sinceLastRequest' = [sinceLastRequest EXCEPT ![p] = 0]
    /\ IF \A q \in Procs : ~holds[q] THEN ListenAcquired(p) ELSE ListenFailed(p)
    /\ UNCHANGED <<handlers, mpc, untilTick, idleDuration, reqs, resp,
                   attempts, launched, exitCode>>
    /\ UNCHANGED outsideLife

\* go monitorInactivity(): the goroutine creates its ticker.
StartMonitor(p) ==
    /\ pc[p] = "startMonitor"
    /\ mpc' = [mpc EXCEPT ![p] = "wait"]
    /\ untilTick' = [untilTick EXCEPT ![p] = TICKER_SECONDS]
    /\ pc' = [pc EXCEPT ![p] = "register"]
    /\ UNCHANGED <<args, holds, role, handlers, sinceLastRequest,
                   idleDuration, reqs, resp, attempts, launched, exitCode>>
    /\ UNCHANGED outsideLife

\* The five http.HandleFunc calls.
RegisterHandlers(p) ==
    /\ pc[p] = "register"
    /\ handlers' = [handlers EXCEPT ![p] = Patterns]
    /\ pc' = [pc EXCEPT ![p] = "launch"]
    /\ UNCHANGED <<args, holds, role, sinceLastRequest, mpc, untilTick,
                   idleDuration, reqs, resp, attempts, launched, exitCode>>
    /\ UNCHANGED outsideLife

\* launchBrowser(initialGopherURL), then server.Serve(listener).
LaunchInitial(p) ==
    /\ pc[p] = "launch"
    /\ launched' = [launched EXCEPT ![p] =
                      @ \cup {[by |-> p, url |-> InitialGopherURL(args[p])]}]
    /\ pc' = [pc EXCEPT ![p] = "serve"]
    /\ UNCHANGED <<args, holds, role, handlers, sinceLastRequest, mpc,
                   untilTick, idleDuration, reqs, resp, attempts, exitCode>>
    /\ UNCHANGED outsideLife

\* http.Get(targetURL) of a second instance: the request reaches whichever
\* process owns the port now; with no owner the connection is refused.
SendForward(p) ==
    /\ pc[p] = "forward"
    /\ attempts' = [attempts EXCEPT ![p] = @ + 1]
    /\ pc' = [pc EXCEPT ![p] = "await"]
    /\ IF \E q \in Procs : holds[q]
       THEN /\ reqs' = reqs \cup
                 { [path |-> TargetURL(args[p]).path,
                    method |-> TargetURL(args[p]).method,
                    valid |-> TargetURL(args[p]).valid,
                    uri |-> TargetURL(args[p]).uri,
                    from |-> p, to |-> q, st |-> "queued", status |-> 0] :
                   q \in {x \in Procs : holds[x]} }
            /\ resp' = resp
       ELSE /\ reqs' = reqs
            /\ resp' = [resp EXCEPT ![p] = -1]
    /\ UNCHANGED <<args, holds, role, handlers, sinceLastRequest, mpc,
                   untilTick, idleDuration, launched, exitCode>>
    /\ UNCHANGED outsideLife

\* Variant: the forward's error is only logged.
ForwardExitCode_AlwaysZero(result) == 0

\* Variant: a response other than 200 is treated as a failure.
ForwardExitCode_StatusChecked(result) == IF result = 200 THEN 0 ELSE 1

\* The exit status main ends with after http.Get returned: 1 on an error,
\* 0 on any response.
ForwardExitCode(result) == IF result = -1 THEN 1 ELSE 0

GetReturns(p) ==
    /\ pc[p] = "await"
    /\ resp[p] # 0
    /\ ProcExit(p, ForwardExitCode(resp[p]))
    /\ UNCHANGED outsideLife

\* ------------------------------------------------------------------------
\* Request handlers of the primary instance
\* ------------------------------------------------------------------------
\* What entering the handler does to the activity clock: the handler's
\* first statement is updateActivity() in every handler but HandleSearch.
HandlerEntry(path, p) ==
    IF CallsUpdateActivity(Mux(path)) THEN updateActivity(p)
    ELSE sinceLastRequest

\* A browser request reaches the serving primary and its handler starts.
BrowserRequest(rq) ==
    /\ Cardinality({r \in reqs : r.from = Browser}) < MaxInFlight
    /\ \E q \in Procs :
          /\ holds[q]
          /\ pc[q] = "serve"
          /\ "/" \in handlers[q]
          /\ sinceLastRequest' = HandlerEntry(rq.path, q)
          /\ reqs' = reqs \cup
                {[path |-> rq.path, method |-> rq.method, valid |-> rq.valid,
                  uri |-> rq.uri, from |-> Browser, to |-> q,
                  st |-> "running", status |-> 0]}
    /\ UNCHANGED <<pc, args, holds, role, handlers, mpc, untilTick,
                   idleDuration, resp, attempts, launched, exitCode>>
    /\ UNCHANGED outsideLife

\* The server takes a forwarded request off the listener's backlog and the
\* mux calls handleFocus.
HandlerEnter(r) ==
    /\ r \in reqs
    /\ r.st = "queued"
    /\ pc[r.to] = "serve"
    /\ "/" \in handlers[r.to]
    /\ sinceLastRequest' = HandlerEntry(r.path, r.to)
    /\ reqs' = (reqs \ {r}) \cup {[r EXCEPT !.st = "running"]}
    /\ UNCHANGED <<pc, args, holds, role, handlers, mpc, untilTick,
                   idleDuration, resp, attempts, launched, exitCode>>
    /\ UNCHANGED outsideLife

\* Variant: a forward without a uri is answered 200.
handleFocusStatus_BareAccepted(r) ==
    IF ~r.uri.present THEN 200
    ELSE IF ~IsGopherURI(r.uri) THEN 400
    ELSE 200

\* The status each handler answers with; ok is the transport's outcome.
handleFocusStatus(r) ==
    IF ~r.uri.present THEN 400
    ELSE IF ~IsGopherURI(r.uri) THEN 400
    ELSE 200

HandlePHStatus(r, ok) ==
    IF r.method = "POST" /\ ~r.valid THEN 400
    ELSE IF ~ok THEN 502
    ELSE 200

HandleSearchStatus(r, ok) ==
    IF ~r.valid THEN 400
    ELSE IF r.method = "GET" THEN 200
    ELSE IF ~ok THEN 502
    ELSE 200

HandlerStatus(r, ok) ==
    CASE Mux(r.path) = "handleFocus"     -> handleFocusStatus(r)
      [] Mux(r.path) = "handleHeartbeat" -> 200
      [] Mux(r.path) = "handlePHEntry"   -> HandlePHStatus(r, ok)
      [] Mux(r.path) = "HandleSearch"    -> HandleSearchStatus(r, ok)
      [] OTHER                           -> 200

\* handleFocus, step 3: launchBrowser(localURL), only on the 200 path.
handleFocusLaunch(r) ==
    IF Mux(r.path) = "handleFocus" /\ handleFocusStatus(r) = 200
    THEN {[by |-> r.to, url |-> LocalURL(r.uri)]}
    ELSE {}

\* Variant: a failed transport call ends the process with status 1.
HandlerBody_Fatal(r) ==
    /\ r \in reqs
    /\ r.st = "running"
    /\ \E ok \in (IF UsesTransport(r) THEN BOOLEAN ELSE {TRUE}) :
          IF ~ok
          THEN ProcExit(r.to, 1)
          ELSE /\ reqs' = IF r.from = Browser THEN reqs \ {r}
                          ELSE (reqs \ {r}) \cup
                               {[r EXCEPT !.st = "done",
                                          !.status = HandlerStatus(r, ok)]}
               /\ launched' =
                     IF r.from = Browser THEN launched
                     ELSE [launched EXCEPT
                              ![r.from] = @ \cup handleFocusLaunch(r)]
               /\ UNCHANGED <<pc, args, holds, role, handlers,
                              sinceLastRequest, mpc, untilTick, idleDuration,
                              resp, attempts, exitCode>>
    /\ UNCHANGED outsideLife

\* The handler's body up to the point where it writes its response; the
\* answer to a browser leaves the model at once.
HandlerBody(r) ==
    /\ r \in reqs
    /\ r.st = "running"
    /\ \E ok \in (IF UsesTransport(r) THEN BOOLEAN ELSE {TRUE}) :
          reqs' = IF r.from = Browser THEN reqs \ {r}
                  ELSE (reqs \ {r}) \cup
                       {[r EXCEPT !.st = "done",
                                  !.status = HandlerStatus(r, ok)]}
    /\ launched' = IF r.from = Browser THEN launched
                   ELSE [launched EXCEPT ![r.from] = @ \cup handleFocusLaunch(r)]
    /\ UNCHANGED <<pc, args, holds, role, handlers, sinceLastRequest,
                   mpc, untilTick, idleDuration, resp, attempts, exitCode>>
    /\ UNCHANGED outsideLife

\* The response to a forward reaches the second instance.
HandlerRespond(r) ==
    /\ r \in reqs
    /\ r.st = "done"
    /\ reqs' = reqs \ {r}
    /\ resp' = IF r.from = Browser THEN resp
               ELSE [resp EXCEPT ![r.from] = r.status]
    /\ UNCHANGED <<pc, args, holds, role, handlers, sinceLastRequest,
                   mpc, untilTick, idleDuration, attempts, launched, exitCode>>
    /\ UNCHANGED outsideLife

\* ------------------------------------------------------------------------
\* monitorInactivity
\* ------------------------------------------------------------------------
\* A tick: lock, idleDuration := time.Since(lastRequestTime), unlock.
MonitorTick(p) ==
    /\ mpc[p] = "wait"
    /\ untilTick[p] = 0
    /\ idleDuration' = [idleDuration EXCEPT ![p] = sinceLastRequest[p]]
    /\ mpc' = [mpc EXCEPT ![p] = "check"]
    /\ UNCHANGED <<pc, args, holds, role, handlers, sinceLastRequest,
                   untilTick, reqs, resp, attempts, launched, exitCode>>
    /\ UNCHANGED outsideLife

\* Variant: the threshold itself already counts as expired.
IdleExpired_Inclusive(d) == d >= SHUTDOWN_TIMEOUT_SECONDS

\* idleDuration > SHUTDOWN_TIMEOUT_SECONDS*time.Second
IdleExpired(d) == d > SHUTDOWN_TIMEOUT_SECONDS

\* Variant: on expiry the monitor rearms the timestamp and goes on.
MonitorCheck_Rearms(p) ==
    /\ mpc[p] = "check"
    /\ mpc' = [mpc EXCEPT ![p] = "wait"]
    /\ untilTick' = [untilTick EXCEPT ![p] = TICKER_SECONDS]
    /\ idleDuration' = [idleDuration EXCEPT ![p] = 0]
    /\ sinceLastRequest' =
          IF IdleExpired(idleDuration[p]) THEN updateActivity(p)
          ELSE sinceLastRequest
    /\ UNCHANGED <<pc, args, holds, role, handlers, reqs, resp, attempts,
                   launched, exitCode>>
    /\ UNCHANGED outsideLife

\* The comparison after the lock is released, and os.Exit(0).
MonitorCheck(p) ==
    /\ mpc[p] = "check"
    /\ IF IdleExpired(idleDuration[p])
       THEN ProcExit(p, 0)
       ELSE /\ mpc' = [mpc EXCEPT ![p] = "wait"]
            /\ untilTick' = [untilTick EXCEPT ![p] = TICKER_SECONDS]
            /\ idleDuration' = [idleDuration EXCEPT ![p] = 0]
            /\ UNCHANGED <<pc, args, holds, role, handlers,
                           sinceLastRequest, reqs, resp, attempts, launched,
                           exitCode>>
    /\ UNCHANGED outsideLife

\* ------------------------------------------------------------------------
\* Time
\* ------------------------------------------------------------------------
Alive(p) == pc[p] \notin {"off", "exited"}

\* A second passes while every goroutine is blocked: main in Serve or in
\* http.Get, the monitor on its ticker, handlers in a transport call.
Tick ==
    /\ \E p \in Procs : Alive(p)
    /\ \A p \in Procs :
          /\ pc[p] \in {"off", "serve", "await", "exited"}
          /\ pc[p] = "await" => resp[p] = 0
          /\ mpc[p] # "check"
          /\ mpc[p] = "wait" => untilTick[p] > 0
    /\ \A r \in reqs : r.st = "running" /\ UsesTransport(r)
    /\ sinceLastRequest' = [p \in Procs |->
          IF Alive(p) THEN sinceLastRequest[p] + 1 ELSE sinceLastRequest[p]]
    /\ untilTick' = [p \in Procs |->
          IF mpc[p] = "wait" THEN untilTick[p] - 1 ELSE untilTick[p]]
    /\ UNCHANGED <<pc, args, holds, role, handlers, mpc, idleDuration, reqs,
                   resp, attempts, launched, exitCode>>
    /\ UNCHANGED outsideLife

NextLife ==
    \/ \E p \in Procs, a \in Args : Launch(p, a)
    \/ \E p \in Procs : StartMonitor(p)
    \/ \E p \in Procs : RegisterHandlers(p)
    \/ \E p \in Procs : LaunchInitial(p)
    \/ \E p \in Procs : SendForward(p)
    \/ \E p \in Procs : GetReturns(p)
    \/ \E rq \in BrowserRequests : BrowserRequest(rq)
    \/ \E r \in reqs : HandlerEnter(r)
    \/ \E r \in reqs : HandlerBody(r)
    \/ \E r \in reqs : HandlerRespond(r)
    \/ \E p \in Procs : MonitorTick(p)
    \/ \E p \in Procs : MonitorCheck(p)
    \/ Tick

\* ========================================================================
\* formatMenuHTML
\* ========================================================================
MaxLines == 2

WhiteSpace == {" ", "\t", "\n", "\r"}

\* strings.Split(s, sep) for a one-character separator: the pieces between
\* the separators, one more than there are separators.
Split(s, sep) ==
    LET at == {k \in 1..Len(s) : s[k] = sep}
        n  == Cardinality(at)
        nth(i) == CHOOSE k \in at : Cardinality({j \in at : j < k}) = i - 1
    IN  [i \in 1..(n + 1) |->
            SubSeq(s, IF i = 1 THEN 1 ELSE nth(i - 1) + 1,
                      IF i = n + 1 THEN Len(s) ELSE nth(i) - 1)]

RECURSIVE TrimLeft(_, _)
TrimLeft(s, cutset) ==
    IF Len(s) > 0 /\ s[1] \in cutset THEN TrimLeft(Tail(s), cutset) ELSE s

\* strings.TrimRight(s, cutset)
RECURSIVE TrimRight(_, _)
TrimRight(s, cutset) ==
    IF Len(s) > 0 /\ s[Len(s)] \in cutset
    THEN TrimRight(SubSeq(s, 1, Len(s) - 1), cutset) ELSE s

\* Variant: nothing is trimmed.
TrimSpace_None(s) == s

\* strings.TrimSpace(s)
TrimSpace(s) == TrimRight(TrimLeft(s, WhiteSpace), WhiteSpace)

\* url.QueryEscape, on the characters of the model: letters, digits and
\* "-", "_", ".", "~" stay, a space becomes "+", the rest is percent-encoded.
EscapeChar(c) ==
    CASE c = " "  -> <<"+">>
      [] c = "/"  -> <<"%", "2", "F">>
      [] c = "\t" -> <<"%", "0", "9">>
      [] c = "\r" -> <<"%", "0", "D">>
      [] c = "\n" -> <<"%", "0", "A">>
      [] c = "&"  -> <<"%", "2", "6">>
      [] c = "="  -> <<"%", "3", "D">>
      [] c = "?"  -> <<"%", "3", "F">>
      [] c = ":"  -> <<"%", "3", "A">>
      [] c = "+"  -> <<"%", "2", "B">>
      [] c = "%"  -> <<"%", "2", "5">>
      [] OTHER    -> <<c>>

RECURSIVE QueryEscape(_)
QueryEscape(s) ==
    IF s = <<>> THEN <<>> ELSE EscapeChar(Head(s)) \o QueryEscape(Tail(s))

\* "Malformed Line (Type 3 Error): "
MalformedPrefix ==
    <<"M","a","l","f","o","r","m","e","d"," ","L","i","n","e"," ","(","T","y",
      "p","e"," ","3"," ","E","r","r","o","r",")",":"," ">>

NoRecord == [panic |-> TRUE, itemType |-> "", displayString |-> <<>>,
             selector |-> <<>>, host |-> <<>>, port |-> <<>>]

\* Variant: a line's host and port are always replaced by the context's.
ParseLine_ContextTarget(line, currentHost, currentPort) ==
    LET fields == Split(line, "\t") IN
    IF Len(fields) < 4
    THEN [panic |-> FALSE, itemType |-> "3",
          displayString |-> MalformedPrefix \o TrimSpace(line),
          selector |-> <<"/">>, host |-> currentHost, port |-> currentPort]
    ELSE IF Len(fields[1]) = 0 THEN NoRecord
    ELSE [panic |-> FALSE, itemType |-> fields[1][1],
          displayString |-> Tail(fields[1]),
          selector |-> fields[2], host |-> currentHost, port |-> currentPort]

\* Variant: a malformed line keeps the fields it has.
ParseLine_KeepPartial(line, currentHost, currentPort) ==
    LET fields == Split(line, "\t") IN
    IF Len(fields) < 4
    THEN [panic |-> FALSE, itemType |-> "3",
          displayString |-> MalformedPrefix \o TrimSpace(line),
          selector |-> IF Len(fields) > 1 THEN fields[2] ELSE <<"/">>,
          host |-> IF Len(fields) > 2 THEN fields[3] ELSE currentHost,
          port |-> currentPort]
    ELSE IF Len(fields[1]) = 0 THEN NoRecord
    ELSE [panic |-> FALSE, itemType |-> fields[1][1],
          displayString |-> Tail(fields[1]),
          selector |-> fields[2], host |-> fields[3], port |-> fields[4]]

\* The body of the loop from strings.Split(line, "\t") to the end of the
\* if/else: the record's five variables.  fields[0][0] on an empty first
\* field is an index out of range: the goroutine panics.
ParseLine(line, currentHost, currentPort) ==
    LET fields == Split(line, "\t") IN
    IF Len(fields) < 4
    THEN [panic |-> FALSE, itemType |-> "3",
          displayString |-> MalformedPrefix \o TrimSpace(line),
          selector |-> <<"/">>, host |-> currentHost, port |-> currentPort]
    ELSE IF Len(fields[1]) = 0 THEN NoRecord
    ELSE [panic |-> FALSE, itemType |-> fields[1][1],
          displayString |-> Tail(fields[1]),
          selector |-> fields[2], host |-> fields[3], port |-> fields[4]]

PH_DEFAULT_PORT == <<"1","0","5">>

NoLink == [route |-> "none", type |-> "", host |-> <<>>, port |-> <<>>,
           selector |-> <<>>, return |-> <<>>]

\* "<a href=\"/?type=%c&host=%s&port=%s&selector=%s\">": the arguments of
\* the format.
NavLink(itemType, host, port, selector) ==
    [route |-> "/", type |-> itemType, host |-> host, port |-> port,
     selector |-> QueryEscape(selector), return |-> <<>>]

\* "/search?host=%s&port=%s&selector=%s"
SearchLink(host, port, selector) ==
    [route |-> "/search", type |-> "", host |-> host, port |-> port,
     selector |-> QueryEscape(selector), return |-> <<>>]

\* "/?host=%s&port=%s&selector=%s" of the listing being rendered.
ReturnTo(cur) ==
    <<"/","?","h","o","s","t","=">> \o cur.host \o
    <<"&","p","o","r","t","=">> \o cur.port \o
    <<"&","s","e","l","e","c","t","o","r","=">> \o QueryEscape(cur.selector)

\* "/ph/%s:%s?return=%s", and "?selector=%s" after it when the record has a
\* selector (selector = <<>> stands for the absent parameter).
PHLink(host, port, selector, cur) ==
    [route |-> "/ph/", type |-> "", host |-> host,
     port |-> IF port = <<>> THEN PH_DEFAULT_PORT ELSE port,
     selector |-> QueryEscape(selector),
     return |-> QueryEscape(ReturnTo(cur))]

\* typeIcon; fmt.Sprintf("[!%c!]", itemType) for an unknown type.
TypeIcon(itemType) ==
    CASE itemType = "0" -> <<"[", "T", "X", "T", "]">>
      [] itemType = "1" -> <<"[", " ", "1", " ", "]">>
      [] itemType = "2" -> <<"[", "P", "h", "C", "]">>
      [] itemType = "3" -> <<"[", "E", "R", "R", "]">>
      [] itemType = "4" -> <<"[", "H", "Q", "X", "]">>
      [] itemType = "5" -> <<"[", "D", "O", "S", "]">>
      [] itemType = "6" -> <<"[", "U", "U", "E", "]">>
      [] itemType = "7" -> <<"[", " ", "7", " ", "]">>
      [] itemType = "g" -> <<"[", "G", "I", "F", "]">>
      [] itemType = "I" -> <<"[", "I", "M", "G", "]">>
      [] itemType = "i" -> <<"[", " ", "i", " ", "]">>
      [] OTHER          -> <<"[", "!", itemType, "!", "]">>

\* The switch on itemType: which link the paragraph carries.
RecordLink(rec, cur) ==
    CASE rec.itemType = "2" -> PHLink(rec.host, rec.port, rec.selector, cur)
      [] rec.itemType = "3" -> NoLink
      [] rec.itemType = "7" -> SearchLink(rec.host, rec.port, rec.selector)
      [] rec.itemType = "i" -> NoLink
      [] OTHER -> NavLink(rec.itemType, rec.host, rec.port, rec.selector)

\* One <p class="gopher-link"> paragraph; src is the index of the line it
\* was written for.
Paragraph(rec, display, cur, i) ==
    [kind |-> "record", src |-> i, itemType |-> rec.itemType,
     display |-> display, selector |-> rec.selector, host |-> rec.host,
     port |-> rec.port, icon |-> TypeIcon(rec.itemType),
     link |-> RecordLink(rec, cur)]

Piece(k) ==
    [kind |-> k, src |-> 0, itemType |-> "", display |-> <<>>,
     selector |-> <<>>, host |-> <<>>, port |-> <<>>, icon |-> <<>>,
     link |-> NoLink]

\* ------------------------------------------------------------------------
\* The text of a paragraph and of its link
\* ------------------------------------------------------------------------
HrefNav ==
    <<"/", "?", "t", "y", "p", "e", "=">>
HrefSearch ==
    <<"/", "s", "e", "a", "r", "c", "h", "?", "h", "o", "s", "t", "=">>
HrefPH ==
    <<"/", "p", "h", "/">>
AndHost ==
    <<"&", "h", "o", "s", "t", "=">>
AndPort ==
    <<"&", "p", "o", "r", "t", "=">>
AndSelector ==
    <<"&", "s", "e", "l", "e", "c", "t", "o", "r", "=">>
QReturn ==
    <<"?", "r", "e", "t", "u", "r", "n", "=">>
QSelector ==
    <<"?", "s", "e", "l", "e", "c", "t", "o", "r", "=">>

\* The href the Sprintf calls of the switch build out of a link's parts.
Href(l) ==
    CASE l.route = "/" ->
            HrefNav \o <<l.type>> \o AndHost \o l.host \o AndPort \o l.port
                \o AndSelector \o l.selector
      [] l.route = "/search" ->
            HrefSearch \o l.host \o AndPort \o l.port \o AndSelector
                \o l.selector
      [] l.route = "/ph/" ->
            HrefPH \o l.host \o <<":">> \o l.port \o QReturn \o l.return
                \o (IF l.selector = <<>> THEN <<>> ELSE QSelector \o l.selector)
      [] OTHER -> <<>>

POpen ==
    <<"<", "p", " ", "c", "l", "a", "s", "s", "=", "\"", "g", "o", "p", "h",
      "e", "r", "-", "l", "i", "n", "k", "\"", ">">>
SpanRed ==
    <<"<", "s", "p", "a", "n", " ", "s", "t", "y", "l", "e", "=", "\"", "c",
      "o", "l", "o", "r", ":", " ", "r", "e", "d", ";", "\"", ">">>
SpanGray ==
    <<"<", "s", "p", "a", "n", " ", "s", "t", "y", "l", "e", "=", "\"", "c",
      "o", "l", "o", "r", ":", " ", "g", "r", "a", "y", ";", "\"", ">">>
SpanClose ==
    <<"<", "/", "s", "p", "a", "n", ">">>
AOpen ==
    <<"<", "a", " ", "h", "r", "e", "f", "=", "\"">>
AMid ==
    <<"\"", ">">>
AClose ==
    <<"<", "/", "a", ">">>
PClose ==
    <<"<", "/", "p", ">", "\n">>

Anchor(l, display) == AOpen \o Href(l) \o AMid \o display \o AClose

\* Variant: every record is written through writeLink.
ParagraphHTML_AllLinked(item) ==
    POpen \o item.icon \o Anchor(item.link, item.display) \o PClose

\* The text written for a record by its case of the switch.
ParagraphHTML(item) ==
    CASE item.itemType = "3" ->
            POpen \o SpanRed \o item.icon \o SpanClose \o item.display \o PClose
      [] item.itemType = "i" ->
            POpen \o SpanGray \o item.icon \o SpanClose \o item.display \o PClose
      [] item.itemType \in {"0", "1", "2", "4", "5", "6", "7", "g", "I"} ->
            POpen \o item.icon \o Anchor(item.link, item.display) \o PClose
      [] OTHER ->
            POpen \o SpanRed \o item.icon \o SpanClose
                \o Anchor(item.link, item.display) \o PClose

\* ------------------------------------------------------------------------
\* The query of a request, as net/url reads it
\* ------------------------------------------------------------------------
NoChar == [ok |-> FALSE, char |-> ""]

\* The character a %XX escape stands for, on the escapes of the model.
HexChar(a, b) ==
    CASE <<a, b>> = <<"2", "F">> -> [ok |-> TRUE, char |-> "/"]
      [] <<a, b>> = <<"0", "9">> -> [ok |-> TRUE, char |-> "\t"]
      [] <<a, b>> = <<"0", "D">> -> [ok |-> TRUE, char |-> "\r"]
      [] <<a, b>> = <<"0", "A">> -> [ok |-> TRUE, char |-> "\n"]
      [] <<a, b>> = <<"2", "6">> -> [ok |-> TRUE, char |-> "&"]
      [] <<a, b>> = <<"3", "D">> -> [ok |-> TRUE, char |-> "="]
      [] <<a, b>> = <<"3", "F">> -> [ok |-> TRUE, char |-> "?"]
      [] <<a, b>> = <<"3", "A">> -> [ok |-> TRUE, char |-> ":"]
      [] <<a, b>> = <<"2", "B">> -> [ok |-> TRUE, char |-> "+"]
      [] <<a, b>> = <<"2", "5">> -> [ok |-> TRUE, char |-> "%"]
      [] OTHER -> NoChar

\* url.QueryUnescape: "+" is a space, %XX a byte; a "%" that starts no
\* escape is an error.
RECURSIVE QueryUnescape(_)
QueryUnescape(s) ==
    IF s = <<>> THEN [ok |-> TRUE, val |-> <<>>]
    ELSE IF s[1] = "%"
    THEN IF Len(s) < 3 \/ ~HexChar(s[2], s[3]).ok
         THEN [ok |-> FALSE, val |-> <<>>]
         ELSE LET rest == QueryUnescape(SubSeq(s, 4, Len(s))) IN
              [ok |-> rest.ok, val |-> <<HexChar(s[2], s[3]).char>> \o rest.val]
    ELSE LET rest == QueryUnescape(Tail(s)) IN
         [ok |-> rest.ok,
          val |-> <<IF s[1] = "+" THEN " " ELSE s[1]>> \o rest.val]

\* strings.Cut(s, sep): the text before and after the first sep.
CutAt(s, sep) ==
    IF \E k \in 1..Len(s) : s[k] = sep
    THEN LET k == CHOOSE k \in 1..Len(s) :
                     s[k] = sep /\ \A j \in 1..(k - 1) : s[j] # sep
         IN  [found |-> TRUE, before |-> SubSeq(s, 1, k - 1),
              after |-> SubSeq(s, k + 1, Len(s))]
    ELSE [found |-> FALSE, before |-> s, after |-> <<>>]

\* The path and the RawQuery of a request target.
RawQuery(target) == CutAt(target, "?").after

URLPath(target) == CutAt(target, "?").before

\* url.ParseQuery: the key/value pairs in order; an empty pair and a pair
\* that does not unescape are left out.
RECURSIVE PairsOf(_)
PairsOf(parts) ==
    IF parts = <<>> THEN <<>>
    ELSE LET kv  == CutAt(Head(parts), "=")
             key == QueryUnescape(kv.before)
             val == QueryUnescape(kv.after)
         IN  (IF Head(parts) = <<>> \/ ~key.ok \/ ~val.ok
              THEN <<>>
              ELSE << [key |-> key.val, val |-> val.val] >>)
             \o PairsOf(Tail(parts))

ParseQuery(raw) == PairsOf(Split(raw, "&"))

\* url.Values.Get: the first value of the key, "" when there is none.
Get(pairs, key) ==
    IF \E k \in 1..Len(pairs) : pairs[k].key = key
    THEN pairs[CHOOSE k \in 1..Len(pairs) :
                  pairs[k].key = key /\ \A j \in 1..(k - 1) : pairs[j].key # key].val
    ELSE <<>>

KeyType ==
    <<"t", "y", "p", "e">>
KeyHost ==
    <<"h", "o", "s", "t">>
KeyPort ==
    <<"p", "o", "r", "t">>
KeySelector ==
    <<"s", "e", "l", "e", "c", "t", "o", "r">>
KeyReturn ==
    <<"r", "e", "t", "u", "r", "n">>
KeyQuery ==
    <<"q", "u", "e", "r", "y">>
KeyUri ==
    <<"u", "r", "i">>

\* serveGopher for a request without uri: host, port and selector of the
\* query, each replaced by its default when empty.
NavTarget(pairs) ==
    [host |-> IF Get(pairs, KeyHost) = <<>> THEN DEFAULT_GOPHER_HOST
              ELSE Get(pairs, KeyHost),
     port |-> IF Get(pairs, KeyPort) = <<>> THEN DEFAULT_GOPHER_PORT
              ELSE Get(pairs, KeyPort),
     selector |-> IF Get(pairs, KeySelector) = <<>> THEN <<"/">>
                  ELSE Get(pairs, KeySelector)]

\* ------------------------------------------------------------------------
\* Replies: lines given as lists of fields, joined by tabs and newlines.
\* ------------------------------------------------------------------------
RECURSIVE Join(_, _)
Join(parts, sep) ==
    IF Len(parts) = 0 THEN <<>>
    ELSE IF Len(parts) = 1 THEN parts[1]
    ELSE parts[1] \o <<sep>> \o Join(Tail(parts), sep)

LineShapes ==
    { <<<<"1","a">>, <<"/","s">>, <<"h">>, <<"7">>>>,
      <<<<"0","b"," ">>, <<"/","s">>, <<"h">>, <<"7","\r">>>>,
      <<<<"3","e">>, <<>>, <<"h">>, <<"7">>>>,
      <<<<"i","c">>, <<>>, <<>>, <<>>>>,
      <<<<"2","p">>, <<>>, <<"h">>, <<>>>>,
      <<<<"2","p">>, <<"/","s">>, <<"h">>, <<"9">>>>,
      <<<<"7","s">>, <<"/","q">>, <<"h">>, <<"7">>>>,
      <<<<"9","z">>, <<"/","s">>, <<"h">>, <<"7">>>>,
      <<<<"1">>, <<"/","s">>, <<"h">>, <<"7">>>>,
      <<<<"i"," ">>, <<"/","s">>, <<"h">>, <<"7">>>>,
      <<<<>>, <<"/","s">>, <<"h">>, <<"7">>>>,
      <<<<"1","a">>, <<"/","s">>, <<"h">>, <<"7">>, <<"+">>>>,
      <<<<"b","a","d">>>>,
      <<<<"1","a">>, <<"/","s">>>>,
      <<<<"1","a">>, <<"/","s">>, <<"h">>>>,
      <<<<" ","x","\r">>>>,
      <<<<>>, <<"x">>>>,
      <<<<>>>>,
      <<<<" ">>>>,
      <<<<".">>>>,
      <<<<".","\r">>>>,
      <<<<>>, <<>>, <<>>, <<>>>>,
      <<<<"1","a">>, <<>>, <<"h">>, <<"7">>>>,
      <<<<"9","z">>, <<"/","s">>, <<"a","+","b">>, <<"7">>>>,
      <<<<"&","a">>, <<"/","s">>, <<"h">>, <<"7">>>>,
      <<<<"i","<","a"," ","h","r","e","f","=","u",">">>, <<>>, <<>>, <<>>>> }

Replies ==
    UNION { [1..n -> LineShapes] : n \in 0..MaxLines }

LineText(fields) == Join(fields, "\t")

ReplyText(ls) == Join([i \in 1..Len(ls) |-> LineText(ls[i])], "\n")

Contexts == { [host |-> <<"c">>, port |-> <<"8">>, selector |-> <<"/","m">>] }

NoConn == [state |-> "none", client |-> "", via |-> "", host |-> <<>>,
           port |-> <<>>, line |-> <<>>, received |-> <<>>, chunks |-> 0,
           greeted |-> FALSE, unsent |-> FALSE, ended |-> "",
           socket |-> "none", wire |-> <<>>, writes |-> 0]

NoRet == [err |-> "", msg |-> <<>>, data |-> <<>>]

NoResponse == [status |-> 0, ctype |-> "", view |-> "", body |-> <<>>,
               page |-> <<>>]

NoLoc == [handler |-> "", host |-> <<>>, port |-> <<>>, selector |-> <<>>,
          gopherType |-> "", rawResponse |-> <<>>, returnURL |-> <<>>]

NoRequest == [method |-> "", target |-> <<>>, form |-> <<>>, remote |-> ""]

\* No request is being handled.
ServeIdle ==
    /\ hpc = "idle"
    /\ request = NoRequest
    /\ loc = NoLoc
    /\ conn = NoConn
    /\ ret = NoRet
    /\ fetches = <<>>
    /\ response = NoResponse
    /\ browser = <<>>

MenuIdle ==
    /\ fpc = "idle"
    /\ rawGopherData = <<>>
    /\ current = [host |-> <<>>, port |-> <<>>, selector |-> <<>>]
    /\ embedded = FALSE
    /\ lines = <<>>
    /\ idx = 0
    /\ html = <<>>
    /\ inLines = <<>>
    /\ calls = 0
    /\ firstHtml = <<>>

\* A call formatMenuHTML(rawGopherData, currentHost, currentPort,
\* currentSelector, embedded).
InitMenu ==
    /\ InitLife
    /\ ServeIdle
    /\ PageIdle
    /\ LockIdle
    /\ fpc = "start"
    /\ inLines \in Replies
    /\ rawGopherData = ReplyText(inLines)
    /\ current \in Contexts
    /\ embedded \in BOOLEAN
    /\ lines = <<>>
    /\ idx = 0
    /\ html = <<>>
    /\ calls = 1
    /\ firstHtml = <<>>

\* Variant: the new text goes in front of what was written before.
WriteString_Front(h, item) == <<item>> \o h

\* html.WriteString: the text is appended to the builder.
WriteString(h, item) == Append(h, item)

\* Variant: an embedded render leaves out the first line of the reply.
FormatStart_EmbeddedSkipsFirst ==
    /\ fpc = "start"
    /\ html' = IF embedded THEN <<>> ELSE <<Piece("shell")>>
    /\ lines' = Split(rawGopherData, "\n")
    /\ idx' = IF embedded THEN 2 ELSE 1
    /\ fpc' = "loop"
    /\ UNCHANGED <<rawGopherData, current, embedded, inLines, calls, firstHtml>>
    /\ UNCHANGED outsideMenu

\* The page shell unless embedded, then strings.Split(rawGopherData, "\n").
FormatStart ==
    /\ fpc = "start"
    /\ html' = IF embedded THEN <<>> ELSE <<Piece("shell")>>
    /\ lines' = Split(rawGopherData, "\n")
    /\ idx' = 1
    /\ fpc' = "loop"
    /\ UNCHANGED <<rawGopherData, current, embedded, inLines, calls, firstHtml>>
    /\ UNCHANGED outsideMenu

\* Variant: a terminator line is passed over like a blank line and the
\* loop goes on.
FormatLine_TerminatorSkipped ==
    /\ fpc = "loop"
    /\ idx <= Len(lines)
    /\ LET line == lines[idx]
           rec == ParseLine(line, current.host, current.port)
           displayString == TrimRight(rec.displayString, {" ", "\t", "\r"})
       IN  IF TrimSpace(line) = <<>>
           THEN /\ idx' = idx + 1
                /\ UNCHANGED <<fpc, html>>
           ELSE IF TrimSpace(line) = <<".">>
           THEN /\ idx' = idx + 1
                /\ UNCHANGED <<fpc, html>>
           ELSE IF rec.panic
           THEN /\ fpc' = "panic"
                /\ UNCHANGED <<idx, html>>
           ELSE IF displayString = <<>>
           THEN /\ idx' = idx + 1
                /\ UNCHANGED <<fpc, html>>
           ELSE /\ html' = WriteString(html,
                                      Paragraph(rec, displayString, current, idx))
                /\ idx' = idx + 1
                /\ UNCHANGED fpc
    /\ UNCHANGED <<rawGopherData, current, embedded, lines, inLines, calls,
                 firstHtml>>
    /\ UNCHANGED outsideMenu

\* One iteration of the loop over lines.
FormatLine ==
    /\ fpc = "loop"
    /\ idx <= Len(lines)
    /\ LET line == lines[idx]
           rec == ParseLine(line, current.host, current.port)
           displayString == TrimRight(rec.displayString, {" ", "\t", "\r"})
       IN  IF TrimSpace(line) = <<>>
           THEN /\ idx' = idx + 1
                /\ UNCHANGED <<fpc, html>>
           ELSE IF TrimSpace(line) = <<".">>
           THEN /\ fpc' = "tail"
                /\ UNCHANGED <<idx, html>>
           ELSE IF rec.panic
           THEN /\ fpc' = "panic"
                /\ UNCHANGED <<idx, html>>
           ELSE IF displayString = <<>>
           THEN /\ idx' = idx + 1
                /\ UNCHANGED <<fpc, html>>
           ELSE /\ html' = WriteString(html,
                                      Paragraph(rec, displayString, current, idx))
                /\ idx' = idx + 1
                /\ UNCHANGED fpc
    /\ UNCHANGED <<rawGopherData, current, embedded, lines, inLines, calls,
                 firstHtml>>
    /\ UNCHANGED outsideMenu

\* After the loop: the heartbeat script and, unless embedded, the closing
\* tags; the function returns html.String().
FormatReturn ==
    /\ fpc = "tail" \/ (fpc = "loop" /\ idx > Len(lines))
    /\ html' = html \o <<Piece("script")>> \o
               (IF embedded THEN <<>> ELSE <<Piece("close")>>)
    /\ fpc' = "done"
    /\ UNCHANGED <<rawGopherData, current, embedded, lines, idx, inLines, calls,
                 firstHtml>>
    /\ UNCHANGED outsideMenu

\* The same arguments are handed to formatMenuHTML a second time (the page
\* is loaded again); the first output is kept for comparison.
FormatAgain ==
    /\ fpc = "done"
    /\ calls = 1
    /\ firstHtml' = html
    /\ calls' = 2
    /\ fpc' = "start"
    /\ lines' = <<>>
    /\ idx' = 0
    /\ html' = <<>>
    /\ UNCHANGED <<rawGopherData, current, embedded, inLines>>
    /\ UNCHANGED outsideMenu

\* The same reply and context are handed to formatMenuHTML with the other
\* value of embedded (serveGopher passes false, HandleSearch true); the
\* first output is kept for comparison.
FormatOther ==
    /\ fpc = "done"
    /\ calls = 1
    /\ firstHtml' = html
    /\ calls' = 3
    /\ embedded' = ~embedded
    /\ fpc' = "start"
    /\ lines' = <<>>
    /\ idx' = 0
    /\ html' = <<>>
    /\ UNCHANGED <<rawGopherData, current, inLines>>
    /\ UNCHANGED outsideMenu

NextMenu ==
    \/ FormatStart
    \/ FormatLine
    \/ FormatReturn
    \/ FormatAgain
    \/ FormatOther

\* ========================================================================
\* The transport clients
\* ========================================================================
MaxReply == 2

\* What a remote server sends, as the pieces that arrive.
ReplyChunks ==
    { <<"x">>, <<"\n">>, <<"\t", "\t", "\t", "x">>, <<"b", "\n", "x">> }

GOPHER_REQUEST_TERMINATOR ==
    <<"\r", "\n">>

\* net.JoinHostPort: a host with a colon or a percent sign goes in brackets.
JoinHostPort(host, port) ==
    (IF \E k \in 1..Len(host) : host[k] \in {":", "%"}
     THEN <<"[">> \o host \o <<"]">> ELSE host) \o <<":">> \o port

\* The text of the wrapped network error, which the program does not choose.
Cause == <<"r", "e", "f", "u", "s", "e", "d">>

ErrConnect ==
    <<"f", "a", "i", "l", "e", "d", " ", "t", "o", " ", "c", "o", "n", "n",
      "e", "c", "t", " ", "t", "o", " ", "G", "o", "p", "h", "e", "r", " ",
      "s", "e", "r", "v", "e", "r", " ">>
ErrWrite ==
    <<"f", "a", "i", "l", "e", "d", " ", "t", "o", " ", "w", "r", "i", "t",
      "e", " ", "s", "e", "l", "e", "c", "t", "o", "r", " ", "t", "o", " ",
      "s", "o", "c", "k", "e", "t", ":", " ">>
ErrTimeout ==
    <<"s", "o", "c", "k", "e", "t", " ", "t", "i", "m", "e", "o", "u", "t",
      " ", "w", "h", "i", "l", "e", " ", "r", "e", "a", "d", "i", "n", "g",
      " ", "f", "r", "o", "m", " ">>
ErrRead ==
    <<"e", "r", "r", "o", "r", " ", "r", "e", "a", "d", "i", "n", "g", " ",
      "f", "r", "o", "m", " ", "s", "o", "c", "k", "e", "t", ":", " ">>
ErrPHConnect ==
    <<"P", "H", " ", "c", "o", "n", "n", "e", "c", "t", " ", "f", "a", "i",
      "l", "e", "d", ":", " ">>
ErrPHRead ==
    <<"P", "H", " ", "r", "e", "a", "d", " ", "f", "a", "i", "l", "e", "d",
      ":", " ">>

\* A transport client is called: it dials address host:port.  via is
\* "text" when gopherRequestBytes is called through gopherRequest.
Dial(client, via, host, port, line) ==
    /\ conn' = [state |-> "dial", client |-> client, via |-> via,
                host |-> host, port |-> port, line |-> line,
                received |-> <<>>, chunks |-> 0, greeted |-> FALSE,
                unsent |-> FALSE, ended |-> "", socket |-> "none",
                wire |-> <<>>, writes |-> 0]
    /\ fetches' = Append(fetches, [client |-> client, via |-> via,
                                   host |-> host, port |-> port,
                                   line |-> line])
    /\ ret' = NoRet

\* Variant: the socket is closed only when the exchange ended with the
\* peer's close.
DeferredClose_OnEOFOnly(how) ==
    IF how = "connect" THEN "none"
    ELSE IF how \in {"eof", "line"} THEN "closed" ELSE "open"

\* defer conn.Close(), registered once the dial has succeeded: the socket
\* of the call after its return, which ended as how says.
DeferredClose(how) == IF how = "connect" THEN "none" ELSE "closed"

\* The client returns (data, nil); how is what ended the exchange.
ReturnData(data, how) ==
    /\ ret' = [err |-> "", msg |-> <<>>, data |-> data]
    /\ conn' = [conn EXCEPT !.state = "returned", !.ended = how,
                            !.socket = DeferredClose(how)]

\* The client returns an error; what it had read is not returned.
ReturnError(kind, msg, how) ==
    /\ ret' = [err |-> kind, msg |-> msg, data |-> <<>>]
    /\ conn' = [conn EXCEPT !.state = "returned", !.ended = how,
                            !.socket = DeferredClose(how)]

Address == JoinHostPort(conn.host, conn.port)

\* net.DialTimeout fails.
DialFails ==
    /\ conn.state = "dial"
    /\ CASE conn.client = "gopherRequestBytes" ->
               ReturnError("connect",
                           ErrConnect \o Address \o <<":", " ">> \o Cause,
                           "connect")
         [] conn.client = "PHInitialGreeting" ->
               ReturnError("connect", ErrPHConnect \o Cause, "connect")
         [] OTHER -> ReturnError("connect", Cause, "connect")
    /\ UNCHANGED <<hpc, request, loc, fetches, response, browser>>
    /\ UNCHANGED <<outsideServe, mvars>>

\* The calls of conn.Write and fmt.Fprintf(conn, ...) a client makes between
\* its dial and its first read: the PH clients write nothing before they
\* have read the greeting.
WritesOnOpen(client) ==
    IF client \in {"gopherRequestBytes", "SearchQuery"} THEN 1 ELSE 0

\* net.DialTimeout succeeds, the deadline is set; gopherRequestBytes and
\* SearchQuery then write their request line, whose failure only
\* gopherRequestBytes looks at: SearchQuery goes on to read.
DialSucceeds ==
    /\ conn.state = "dial"
    /\ \/ /\ conn' = [conn EXCEPT !.state = "open", !.socket = "open",
                                  !.writes = WritesOnOpen(conn.client)]
          /\ UNCHANGED ret
       \/ /\ conn.client = "gopherRequestBytes"
          /\ ret' = [err |-> "write", msg |-> ErrWrite \o Cause,
                     data |-> <<>>]
          /\ conn' = [conn EXCEPT !.state = "returned", !.ended = "write",
                                  !.socket = DeferredClose("write"),
                                  !.writes = 1]
       \/ /\ conn.client = "SearchQuery"
          /\ conn' = [conn EXCEPT !.state = "open", !.unsent = TRUE,
                                  !.socket = "open", !.writes = 1]
          /\ UNCHANGED ret
    /\ UNCHANGED <<hpc, request, loc, fetches, response, browser>>
    /\ UNCHANGED <<outsideServe, mvars>>

\* One more piece of the reply arrives.
PeerSends ==
    /\ conn.state = "open"
    /\ conn.chunks < MaxReply
    /\ \E chunk \in ReplyChunks :
          conn' = [conn EXCEPT !.received = @ \o chunk, !.chunks = @ + 1,
                               !.wire = @ \o chunk]
    /\ UNCHANGED <<hpc, request, loc, ret, fetches, response, browser>>
    /\ UNCHANGED <<outsideServe, mvars>>

HasNewline(bytes) == \E k \in 1..Len(bytes) : bytes[k] = "\n"

\* Variant: PHQuery keeps the greeting line in what it collects.
GreetingRead_KeepsBanner ==
    /\ conn.state = "open"
    /\ conn.client \in {"PHInitialGreeting", "PHQuery"}
    /\ ~conn.greeted
    /\ HasNewline(conn.received)
    /\ IF conn.client = "PHInitialGreeting"
       THEN ReturnData(TrimSpace(CutAt(conn.received, "\n").before), "line")
       ELSE /\ \E failed \in BOOLEAN :
                  conn' = [conn EXCEPT !.greeted = TRUE,
                                       !.unsent = failed,
                                       !.writes = @ + 1]
            /\ UNCHANGED ret
    /\ UNCHANGED <<hpc, request, loc, fetches, response, browser>>
    /\ UNCHANGED <<outsideServe, mvars>>

\* bufio.Reader.ReadString('\n') returns the greeting line of a PH server.
\* PHInitialGreeting returns it trimmed; PHQuery drops it, sends the query,
\* does not look at whether that failed, and starts collecting the answer.
GreetingRead ==
    /\ conn.state = "open"
    /\ conn.client \in {"PHInitialGreeting", "PHQuery"}
    /\ ~conn.greeted
    /\ HasNewline(conn.received)
    /\ IF conn.client = "PHInitialGreeting"
       THEN ReturnData(TrimSpace(CutAt(conn.received, "\n").before), "line")
       ELSE /\ \E failed \in BOOLEAN :
                  conn' = [conn EXCEPT !.greeted = TRUE,
                                       !.received = CutAt(@, "\n").after,
                                       !.unsent = failed,
                                       !.writes = @ + 1]
            /\ UNCHANGED ret
    /\ UNCHANGED <<hpc, request, loc, fetches, response, browser>>
    /\ UNCHANGED <<outsideServe, mvars>>

\* A read ends: the peer closed the connection ("eof"), the deadline set by
\* conn.SetDeadline expired ("timeout"), or the connection broke ("reset").
\*   gopherRequestBytes  io.ReadAll: data on EOF, an error otherwise
\*   PHInitialGreeting   an error: the greeting line is not complete
\*   PHQuery             an error before the greeting, else what was read
\*   SearchQuery         what was read
ReadEnds(how) ==
    /\ conn.state = "open"
    /\ ~(conn.client \in {"PHInitialGreeting", "PHQuery"}
         /\ ~conn.greeted /\ HasNewline(conn.received))
    /\ CASE conn.client = "gopherRequestBytes" ->
               IF how = "eof" THEN ReturnData(conn.received, how)
               ELSE IF how = "timeout"
               THEN ReturnError("timeout", ErrTimeout \o Address, how)
               ELSE ReturnError("read", ErrRead \o Cause, how)
         [] conn.client = "PHInitialGreeting" ->
               ReturnError("read", ErrPHRead \o Cause, how)
         [] conn.client = "PHQuery" ->
               IF conn.greeted THEN ReturnData(TrimSpace(conn.received), how)
               ELSE ReturnError("read", Cause, how)
         [] OTHER -> ReturnData(TrimSpace(conn.received), how)
    /\ UNCHANGED <<hpc, request, loc, fetches, response, browser>>
    /\ UNCHANGED <<outsideServe, mvars>>

PeerCloses == ReadEnds("eof")

\* Variant: only gopherRequestBytes has set a deadline.
DeadlineExpires_UnsetInLoops ==
    conn.client = "gopherRequestBytes" /\ ReadEnds("timeout")

DeadlineExpires == ReadEnds("timeout")

ConnectionBreaks == ReadEnds("reset")

NextTransport ==
    \/ DialFails
    \/ DialSucceeds
    \/ PeerSends
    \/ GreetingRead
    \/ PeerCloses
    \/ DeadlineExpires
    \/ ConnectionBreaks

\* ========================================================================
\* The handlers of a request
\* ========================================================================
SchemeSep ==
    <<":", "/", "/">>
GopherScheme ==
    <<"g", "o", "p", "h", "e", "r">>
SyntheticHead ==
    <<"3", "C", "o", "n", "n", "e", "c", "t", "i", "o", "n", " ", "f", "a",
      "i", "l", "e", "d", ":", " ">>

\* strings.Index(s, t) + 1: where t first starts in s, 0 when nowhere.
IndexOf(s, t) ==
    LET at == {k \in 1..(Len(s) - Len(t) + 1) : SubSeq(s, k, k + Len(t) - 1) = t}
    IN  IF at = {} THEN 0 ELSE CHOOSE k \in at : \A j \in at : k <= j

Digits == {"0", "1", "2", "3", "4", "5", "6", "7", "8", "9"}

\* url.Parse on texts of the shape [scheme://]host[:port][/path]; a port
\* that is not a number is an error.  Without "://" the text is a path.
ParseURI(raw) ==
    LET at == IndexOf(raw, SchemeSep) IN
    IF at = 0
    THEN [err |-> FALSE, scheme |-> <<>>, hostname |-> <<>>, port |-> <<>>,
          path |-> raw]
    ELSE LET rest  == SubSeq(raw, at + 3, Len(raw))
             slash == IndexOf(rest, <<"/">>)
             auth  == IF slash = 0 THEN rest ELSE SubSeq(rest, 1, slash - 1)
             hp    == CutAt(auth, ":")
         IN  [err |-> \E k \in 1..Len(hp.after) : hp.after[k] \notin Digits,
              scheme |-> SubSeq(raw, 1, at - 1),
              hostname |-> hp.before,
              port |-> hp.after,
              path |-> IF slash = 0 THEN <<>> ELSE SubSeq(rest, slash, Len(rest))]

\* serveGopher, from r.URL.Query() to the first fetch: host, port, selector
\* and the type parameter.
serveGopherTarget(target) ==
    LET query == ParseQuery(RawQuery(target))
        gopherURI == Get(query, KeyUri)
        raw == IF IndexOf(gopherURI, SchemeSep) = 0
               THEN GopherScheme \o SchemeSep \o gopherURI ELSE gopherURI
        u == ParseURI(raw)
        asGiven == [host |-> Get(query, KeyHost), port |-> Get(query, KeyPort),
                    selector |-> Get(query, KeySelector)]
        t == IF gopherURI = <<>> THEN NavTarget(query)
             ELSE IF ~u.err /\ u.scheme \in {GopherScheme, <<>>}
             THEN [host |-> u.hostname,
                   port |-> IF u.port = <<>> THEN DEFAULT_GOPHER_PORT ELSE u.port,
                   selector |-> TrimPrefix(u.path, "/")]
             ELSE asGiven
    IN  [host |-> t.host, port |-> t.port, selector |-> t.selector,
         gopherTypeQuery |-> Get(query, KeyType)]

\* fmt.Sprintf("%s:%s%s", currentHost, currentPort, currentSelector): the
\* value formatMenuHTML puts in the input named uri of the page shell.
currentGopherURI(c) == c.host \o <<":">> \o c.port \o c.selector

UriBarAction ==
    <<"/", "?", "u", "r", "i", "=">>

\* The request target a browser builds when the form of the URI bar,
\* <form action="/" method="GET"> with its one input, is submitted with
\* value in the input: the value goes into the query percent-encoded.
SubmitUriBar(value) == UriBarAction \o QueryEscape(value)

\* gopherType: the first byte of the type parameter, '1' when it is empty.
GopherTypeOf(gopherTypeQuery) ==
    IF Len(gopherTypeQuery) > 0 THEN gopherTypeQuery[1] ELSE "1"

\* Variant: every type goes through the text pipeline.
isTransparentType_All(t) == TRUE

isTransparentType(t) == t \in {"0", "1"}

\* "3Connection failed: %s\t/\t%s\t%s\n.\n"
Synthetic(msg, host, port) ==
    SyntheticHead \o msg \o <<"\t", "/", "\t">> \o host \o <<"\t">> \o port
        \o <<"\n", ".", "\n">>

\* formatMenuHTML is called: its steps are FormatStart, FormatLine and
\* FormatReturn.
CallFormat(raw, host, port, selector, emb) ==
    /\ fpc' = "start"
    /\ rawGopherData' = raw
    /\ current' = [host |-> host, port |-> port, selector |-> selector]
    /\ embedded' = emb
    /\ lines' = <<>>
    /\ idx' = 0
    /\ html' = <<>>
    /\ inLines' = <<>>
    /\ calls' = 0
    /\ firstHtml' = <<>>

\* The response is complete: status (200 when WriteHeader was not called),
\* Content-Type, and the body as text or as the page formatMenuHTML built.
Respond(status, ctype, view, body, page) ==
    /\ response' = [status |-> status, ctype |-> ctype, view |-> view,
                    body |-> body, page |-> page]
    /\ hpc' = "done"

Returned_(client) == conn.state = "returned" /\ conn.client = client

\* serveGopher up to the first gopherRequest.
serveGopherStart ==
    /\ hpc = "recv"
    /\ loc.handler = "serveGopher"
    /\ LET t == serveGopherTarget(request.target) IN
          /\ loc' = [loc EXCEPT !.host = t.host, !.port = t.port,
                                !.selector = t.selector,
                                !.gopherType = GopherTypeOf(t.gopherTypeQuery)]
          /\ Dial("gopherRequestBytes", "text", t.host, t.port,
                  t.selector \o GOPHER_REQUEST_TERMINATOR)
    /\ hpc' = "first"
    /\ UNCHANGED <<request, response, browser>>
    /\ UNCHANGED <<outsideServe, mvars>>

\* The first fetch has returned: the error page, or the second fetch through
\* the pipeline of the type.
serveGopherFirst ==
    /\ hpc = "first"
    /\ Returned_("gopherRequestBytes")
    /\ IF ret.err # ""
       THEN /\ CallFormat(Synthetic(ret.msg, loc.host, loc.port),
                          loc.host, loc.port, loc.selector, FALSE)
            /\ hpc' = "format"
            /\ conn' = NoConn
            /\ UNCHANGED <<loc, ret, fetches>>
       ELSE /\ loc' = [loc EXCEPT !.rawResponse = ret.data]
            /\ Dial("gopherRequestBytes",
                    IF isTransparentType(loc.gopherType) THEN "text" ELSE "bytes",
                    loc.host, loc.port,
                    loc.selector \o GOPHER_REQUEST_TERMINATOR)
            /\ hpc' = "second"
            /\ UNCHANGED mvars
    /\ UNCHANGED <<request, response, browser>>
    /\ UNCHANGED outsideServe

\* The second fetch has returned: the error page, or the content by type.
serveGopherSecond ==
    /\ hpc = "second"
    /\ Returned_("gopherRequestBytes")
    /\ LET rawResponse == IF conn.via = "text" THEN ret.data ELSE loc.rawResponse
           rawBytes    == IF conn.via = "bytes" THEN ret.data ELSE <<>>
       IN  IF ret.err # ""
           THEN /\ CallFormat(Synthetic(ret.msg, loc.host, loc.port),
                              loc.host, loc.port, loc.selector, FALSE)
                /\ hpc' = "format"
                /\ UNCHANGED response
           ELSE IF loc.gopherType \in {"0", "i"}
           THEN /\ Respond(200, "text/plain", "text", rawResponse, <<>>)
                /\ UNCHANGED mvars
           ELSE IF loc.gopherType = "1"
           THEN /\ CallFormat(rawResponse, loc.host, loc.port, loc.selector,
                              FALSE)
                /\ hpc' = "format"
                /\ UNCHANGED response
           ELSE /\ Respond(200, "detected", "bytes", rawBytes, <<>>)
                /\ UNCHANGED mvars
    /\ conn' = NoConn
    /\ UNCHANGED <<request, loc, ret, fetches, browser>>
    /\ UNCHANGED outsideServe

\* formatMenuHTML has returned to serveGopher, which writes the page.
serveGopherWrite ==
    /\ hpc = "format"
    /\ loc.handler = "serveGopher"
    /\ fpc = "done"
    /\ Respond(200, "text/html", "menu", <<>>, html)
    /\ fpc' = "idle"
    /\ UNCHANGED <<rawGopherData, current, embedded, lines, idx, html, inLines,
                   calls, firstHtml>>
    /\ UNCHANGED <<request, loc, conn, ret, fetches, browser>>
    /\ UNCHANGED outsideServe

\* formatMenuHTML has panicked: net/http recovers, logs and closes the
\* connection; no response is written.
HandlerPanics ==
    /\ hpc = "format"
    /\ fpc = "panic"
    /\ hpc' = "aborted"
    /\ fpc' = "idle"
    /\ UNCHANGED <<rawGopherData, current, embedded, lines, idx, html, inLines,
                   calls, firstHtml>>
    /\ UNCHANGED <<request, loc, conn, ret, fetches, response, browser>>
    /\ UNCHANGED outsideServe

PHPrefix ==
    <<"/", "p", "h", "/">>
PathFocus ==
    <<"/", "f", "o", "c", "u", "s">>
PathHeartbeat ==
    <<"/", "h", "e", "a", "r", "t", "b", "e", "a", "t">>
PathSearch ==
    <<"/", "s", "e", "a", "r", "c", "h">>
QueryCommand ==
    <<"q", "u", "e", "r", "y", " ">>

HasPrefix(s, t) == Len(s) >= Len(t) /\ SubSeq(s, 1, Len(t)) = t

\* The handler http.DefaultServeMux picks for a path: the exact pattern, or
\* the longest registered subtree ("/ph/", then "/").
Route(path) ==
    CASE path = PathFocus         -> "handleFocus"
      [] path = PathHeartbeat     -> "handleHeartbeat"
      [] path = PathSearch        -> "HandleSearch"
      [] HasPrefix(path, PHPrefix) -> "handlePHEntry"
      [] OTHER                    -> "serveGopher"

\* The host part of the address given to net.Listen, ":"+LOCAL_SERVER_PORT.
ListenHost == <<>>

\* Variant: the listener is bound to the loopback address.
Accepts_LoopbackOnly(listenHost, remote) == remote = "loopback"

\* net.Listen with an empty host listens on every address of the machine,
\* so connections from other machines are accepted as well; with a loopback
\* host only local ones are.
Accepts(listenHost, remote) == listenHost = <<>> \/ remote = "loopback"

\* The server accepts the connection and the request reaches its handler,
\* whose first statement is updateActivity() in every handler but
\* HandleSearch.
Dispatch ==
    /\ hpc = "start"
    /\ Accepts(ListenHost, request.remote)
    /\ loc' = [loc EXCEPT !.handler = Route(URLPath(request.target))]
    /\ hpc' = "recv"
    /\ sinceLastRequest' =
          IF CallsUpdateActivity(Route(URLPath(request.target)))
          THEN [p \in Procs |-> IF holds[p] THEN 0 ELSE sinceLastRequest[p]]
          ELSE sinceLastRequest
    /\ UNCHANGED <<request, conn, ret, fetches, response, browser>>
    /\ UNCHANGED <<pc, args, holds, role, handlers, mpc, untilTick,
                   idleDuration, reqs, resp, attempts, launched, exitCode>>
    /\ UNCHANGED <<mvars, pvars, kvars>>

\* ParsePHRoute: strings.Split returns at least one part, so the error
\* branch is never taken.
ParsePHRoute(path) ==
    LET trimmed == IF HasPrefix(path, PHPrefix)
                   THEN SubSeq(path, Len(PHPrefix) + 1, Len(path)) ELSE path
        parts   == Split(trimmed, ":")
    IN  [err |-> Len(parts) < 1,
         host |-> parts[1],
         port |-> IF Len(parts) > 1 /\ parts[2] # <<>> THEN parts[2]
                  ELSE PH_DEFAULT_PORT]

\* r.ParseForm fails when the body or the query holds a pair that does not
\* unescape.
RECURSIVE AllUnescape(_)
AllUnescape(parts) ==
    \/ parts = <<>>
    \/ /\ QueryUnescape(CutAt(Head(parts), "=").before).ok
       /\ QueryUnescape(CutAt(Head(parts), "=").after).ok
       /\ AllUnescape(Tail(parts))

ParseFormFails(r) ==
    \/ ~AllUnescape(Split(r.form, "&"))
    \/ ~AllUnescape(Split(RawQuery(r.target), "&"))

\* r.FormValue: the body's value of the key before the query's.
FormValue(r, key) ==
    LET both == ParseQuery(r.form) \o ParseQuery(RawQuery(r.target)) IN
    Get(both, key)

ReturnURLOf(target) ==
    IF Get(ParseQuery(RawQuery(target)), KeyReturn) = <<>> THEN <<"/">>
    ELSE Get(ParseQuery(RawQuery(target)), KeyReturn)

\* http.Error(w, msg, status)
HttpError(status) == Respond(status, "text/plain", "error", <<>>, <<>>)

\* handlePHEntry and HandlePH up to the transport call.
HandlePHStart ==
    /\ hpc = "recv"
    /\ loc.handler = "handlePHEntry"
    /\ LET route == ParsePHRoute(URLPath(request.target))
           query == TrimSpace(FormValue(request, KeyQuery))
       IN  IF route.err
           THEN HttpError(400) /\ UNCHANGED <<loc, conn, ret, fetches>>
           ELSE IF request.method = "POST"
           THEN IF ParseFormFails(request) \/ query = <<>>
                THEN HttpError(400) /\ UNCHANGED <<loc, conn, ret, fetches>>
                ELSE /\ Dial("PHQuery", "", route.host, route.port,
                             QueryCommand \o query \o <<"\r", "\n">>)
                     /\ loc' = [loc EXCEPT !.host = route.host,
                                           !.port = route.port,
                                           !.returnURL = ReturnURLOf(request.target)]
                     /\ hpc' = "transport"
                     /\ UNCHANGED response
           ELSE /\ Dial("PHInitialGreeting", "", route.host, route.port, <<>>)
                /\ loc' = [loc EXCEPT !.host = route.host, !.port = route.port,
                                      !.returnURL = ReturnURLOf(request.target)]
                /\ hpc' = "transport"
                /\ UNCHANGED response
    /\ UNCHANGED <<request, browser>>
    /\ UNCHANGED <<outsideServe, mvars>>

\* PHQuery or PHInitialGreeting has returned: 502, or the page of
\* formatPHPage.
HandlePHFinish ==
    /\ hpc = "transport"
    /\ loc.handler = "handlePHEntry"
    /\ conn.state = "returned"
    /\ IF ret.err # "" THEN HttpError(502)
       ELSE Respond(200, "text/html", "ph", ret.data, <<>>)
    /\ UNCHANGED <<request, loc, conn, ret, fetches, browser>>
    /\ UNCHANGED <<outsideServe, mvars>>

\* Variant: only the host is required.
MissingTarget_HostOnly(host, port, selector) == host = <<>>

\* host == "" || port == "" || selector == ""
MissingTarget(host, port, selector) ==
    host = <<>> \/ port = <<>> \/ selector = <<>>

\* HandleSearch up to the landing page, an error or the transport call.
HandleSearchStart ==
    /\ hpc = "recv"
    /\ loc.handler = "HandleSearch"
    /\ LET pairs    == ParseQuery(RawQuery(request.target))
           host     == Get(pairs, KeyHost)
           port     == Get(pairs, KeyPort)
           selector == Get(pairs, KeySelector)
           query    == TrimSpace(FormValue(request, KeyQuery))
       IN  IF MissingTarget(host, port, selector)
           THEN HttpError(400) /\ UNCHANGED <<loc, conn, ret, fetches>>
           ELSE IF request.method = "GET"
           THEN /\ Respond(200, "text/html", "search", <<>>, <<>>)
                /\ UNCHANGED <<loc, conn, ret, fetches>>
           ELSE IF request.method = "POST"
           THEN IF ParseFormFails(request) \/ query = <<>>
                THEN HttpError(400) /\ UNCHANGED <<loc, conn, ret, fetches>>
                ELSE /\ Dial("SearchQuery", "", host, port,
                             selector \o <<"\t">> \o query \o <<"\r", "\n">>)
                     /\ loc' = [loc EXCEPT !.host = host, !.port = port,
                                           !.selector = selector,
                                           !.returnURL = ReturnURLOf(request.target)]
                     /\ hpc' = "transport"
                     /\ UNCHANGED response
           ELSE HttpError(405) /\ UNCHANGED <<loc, conn, ret, fetches>>
    /\ UNCHANGED <<request, browser>>
    /\ UNCHANGED <<outsideServe, mvars>>

\* SearchQuery has returned: 502, or formatMenuHTML on the result, embedded.
HandleSearchFinish ==
    /\ hpc = "transport"
    /\ loc.handler = "HandleSearch"
    /\ conn.state = "returned"
    /\ IF ret.err # ""
       THEN HttpError(502) /\ UNCHANGED mvars
       ELSE /\ CallFormat(ret.data, loc.host, loc.port, loc.selector, TRUE)
            /\ hpc' = "format"
            /\ UNCHANGED response
    /\ UNCHANGED <<request, loc, conn, ret, fetches, browser>>
    /\ UNCHANGED outsideServe

\* formatMenuHTML has returned to HandleSearch: the menu goes into the
\* search frame.
HandleSearchWrite ==
    /\ hpc = "format"
    /\ loc.handler = "HandleSearch"
    /\ fpc = "done"
    /\ Respond(200, "text/html", "search", <<>>, html)
    /\ fpc' = "idle"
    /\ UNCHANGED <<rawGopherData, current, embedded, lines, idx, html, inLines,
                   calls, firstHtml>>
    /\ UNCHANGED <<request, loc, conn, ret, fetches, browser>>
    /\ UNCHANGED outsideServe

\* Variant: any URI that parses is taken.
InvalidFocusURI_AnyScheme(gopherURI) ==
    gopherURI = <<>> \/ ParseURI(gopherURI).err

\* gopherURI == "", or err != nil || u.Scheme != "gopher"
InvalidFocusURI(gopherURI) ==
    \/ gopherURI = <<>>
    \/ ParseURI(gopherURI).err
    \/ ParseURI(gopherURI).scheme # GopherScheme

\* handleFocus: 400 without a uri or when it is no gopher URI, else
\* launchBrowser(localURL) and 200.
handleFocusRun ==
    /\ hpc = "recv"
    /\ loc.handler = "handleFocus"
    /\ LET gopherURI == Get(ParseQuery(RawQuery(request.target)), KeyUri)
           u == ParseURI(gopherURI)
       IN  IF InvalidFocusURI(gopherURI)
           THEN HttpError(400) /\ UNCHANGED browser
           ELSE /\ browser' = Append(browser,
                       [host |-> u.hostname,
                        port |-> IF u.port = <<>> THEN DEFAULT_GOPHER_PORT
                                 ELSE u.port,
                        selector |-> TrimPrefix(u.path, "/")])
                /\ Respond(200, "text/plain", "focus", <<>>, <<>>)
    /\ UNCHANGED <<request, loc, conn, ret, fetches>>
    /\ UNCHANGED <<outsideServe, mvars>>

\* handleHeartbeat: 200 and no body.
handleHeartbeatRun ==
    /\ hpc = "recv"
    /\ loc.handler = "handleHeartbeat"
    /\ Respond(200, "", "empty", <<>>, <<>>)
    /\ UNCHANGED <<request, loc, conn, ret, fetches, browser>>
    /\ UNCHANGED <<outsideServe, mvars>>

\* Requests a browser or a second instance sends: method, request target and
\* the form of the body.
Requests ==
    { [method |-> "GET",
       target |-> <<"/">>,
       form |-> <<>>],
      [method |-> "GET",
       target |-> <<"/", "?", "t", "y", "p", "e", "=", "1", "&", "h", "o",
                   "s", "t", "=", "h", "&", "p", "o", "r", "t", "=", "7", "&",
                   "s", "e", "l", "e", "c", "t", "o", "r", "=", "%", "2", "F",
                   "s">>,
       form |-> <<>>],
      [method |-> "GET",
       target |-> <<"/", "?", "t", "y", "p", "e", "=", "0", "&", "h", "o",
                   "s", "t", "=", "h", "&", "p", "o", "r", "t", "=", "7", "&",
                   "s", "e", "l", "e", "c", "t", "o", "r", "=", "%", "2", "F",
                   "s">>,
       form |-> <<>>],
      [method |-> "GET",
       target |-> <<"/", "?", "t", "y", "p", "e", "=", "9", "&", "h", "o",
                   "s", "t", "=", "h", "&", "p", "o", "r", "t", "=", "7", "&",
                   "s", "e", "l", "e", "c", "t", "o", "r", "=", "%", "2", "F",
                   "s">>,
       form |-> <<>>],
      [method |-> "GET",
       target |-> <<"/", "?", "t", "y", "p", "e", "=", "i", "&", "h", "o",
                   "s", "t", "=", "h", "&", "p", "o", "r", "t", "=", "7", "&",
                   "s", "e", "l", "e", "c", "t", "o", "r", "=", "%", "2", "F",
                   "s">>,
       form |-> <<>>],
      [method |-> "GET",
       target |-> <<"/", "?", "t", "y", "p", "e", "=", "&", "&", "h", "o",
                   "s", "t", "=", "h", "&", "p", "o", "r", "t", "=", "7", "&",
                   "s", "e", "l", "e", "c", "t", "o", "r", "=", "%", "2", "F",
                   "s">>,
       form |-> <<>>],
      [method |-> "GET",
       target |-> <<"/", "?", "h", "o", "s", "t", "=", "a", "%", "0", "A",
                   "b", "&", "p", "o", "r", "t", "=", "7">>,
       form |-> <<>>],
      [method |-> "GET",
       target |-> <<"/", "?", "u", "r", "i", "=", "h", "%", "3", "A", "7",
                   "%", "2", "F", "s">>,
       form |-> <<>>],
      [method |-> "GET",
       target |-> <<"/", "?", "u", "r", "i", "=", "h", "t", "t", "p", "%",
                   "3", "A", "%", "2", "F", "%", "2", "F", "h", "%", "2", "F",
                   "s">>,
       form |-> <<>>],
      [method |-> "GET",
       target |-> <<"/", "p", "h", "/", "h", ":", "1", "0", "5">>,
       form |-> <<>>],
      [method |-> "GET",
       target |-> <<"/", "p", "h", "/">>,
       form |-> <<>>],
      [method |-> "GET",
       target |-> <<"/", "p", "h", "/", ":", "1", "0", "5">>,
       form |-> <<>>],
      [method |-> "POST",
       target |-> <<"/", "p", "h", "/", "h", ":", "1", "0", "5">>,
       form |-> <<"q", "u", "e", "r", "y", "=", "q">>],
      [method |-> "POST",
       target |-> <<"/", "p", "h", "/", "h", ":", "1", "0", "5">>,
       form |-> <<"q", "u", "e", "r", "y", "=", "+">>],
      [method |-> "POST",
       target |-> <<"/", "p", "h", "/", "h", ":", "1", "0", "5">>,
       form |-> <<>>],
      [method |-> "POST",
       target |-> <<"/", "p", "h", "/", "h">>,
       form |-> <<"q", "u", "e", "r", "y", "=", "%", "z", "z">>],
      [method |-> "GET",
       target |-> <<"/", "s", "e", "a", "r", "c", "h", "?", "h", "o", "s",
                   "t", "=", "h", "&", "p", "o", "r", "t", "=", "7", "&", "s",
                   "e", "l", "e", "c", "t", "o", "r", "=", "%", "2", "F", "q">>,
       form |-> <<>>],
      [method |-> "GET",
       target |-> <<"/", "s", "e", "a", "r", "c", "h", "?", "h", "o", "s",
                   "t", "=", "h", "&", "p", "o", "r", "t", "=", "7">>,
       form |-> <<>>],
      [method |-> "POST",
       target |-> <<"/", "s", "e", "a", "r", "c", "h", "?", "h", "o", "s",
                   "t", "=", "h", "&", "p", "o", "r", "t", "=", "7", "&", "s",
                   "e", "l", "e", "c", "t", "o", "r", "=", "%", "2", "F", "q">>,
       form |-> <<"q", "u", "e", "r", "y", "=", "q">>],
      [method |-> "POST",
       target |-> <<"/", "s", "e", "a", "r", "c", "h", "?", "h", "o", "s",
                   "t", "=", "h", "&", "p", "o", "r", "t", "=", "7", "&", "s",
                   "e", "l", "e", "c", "t", "o", "r", "=", "%", "2", "F", "q">>,
       form |-> <<"q", "u", "e", "r", "y", "=", "+">>],
      [method |-> "POST",
       target |-> <<"/", "s", "e", "a", "r", "c", "h", "?", "p", "o", "r",
                   "t", "=", "7", "&", "s", "e", "l", "e", "c", "t", "o", "r",
                   "=", "%", "2", "F", "q">>,
       form |-> <<"q", "u", "e", "r", "y", "=", "q">>],
      [method |-> "PUT",
       target |-> <<"/", "s", "e", "a", "r", "c", "h", "?", "h", "o", "s",
                   "t", "=", "h", "&", "p", "o", "r", "t", "=", "7", "&", "s",
                   "e", "l", "e", "c", "t", "o", "r", "=", "%", "2", "F", "q">>,
       form |-> <<>>],
      [method |-> "GET",
       target |-> <<"/", "f", "o", "c", "u", "s", "?", "u", "r", "i", "=",
                   "g", "o", "p", "h", "e", "r", "%", "3", "A", "%", "2", "F",
                   "%", "2", "F", "a", "%", "2", "F", "1", "%", "2", "F", "x">>,
       form |-> <<>>],
      [method |-> "GET",
       target |-> <<"/", "f", "o", "c", "u", "s">>,
       form |-> <<>>],
      [method |-> "GET",
       target |-> <<"/", "f", "o", "c", "u", "s", "?", "u", "r", "i", "=",
                   "h", "t", "t", "p", "%", "3", "A", "%", "2", "F", "%", "2",
                   "F", "a", "%", "2", "F">>,
       form |-> <<>>],
      [method |-> "GET",
       target |-> <<"/", "f", "o", "c", "u", "s", "?", "u", "r", "i", "=",
                   "g", "o", "p", "h", "e", "r", "%", "3", "A", "%", "2", "F",
                   "%", "2", "F", "a", "%", "3", "A", "x", "%", "2", "F">>,
       form |-> <<>>],
      [method |-> "GET",
       target |-> <<"/", "h", "e", "a", "r", "t", "b", "e", "a", "t">>,
       form |-> <<>>] }

\* Requests that also arrive from another machine of the network.
NetworkRequests ==
    {r \in Requests : URLPath(r.target) \in {PathHeartbeat, PathFocus}}

Arrivals ==
    {[method |-> r.method, target |-> r.target, form |-> r.form,
      remote |-> "loopback"] : r \in Requests}
    \cup {[method |-> r.method, target |-> r.target, form |-> r.form,
           remote |-> "network"] : r \in NetworkRequests}

\* Process 1 is the primary: it was started without an argument, has gone
\* through main up to server.Serve, and has been serving for 7 s since the
\* last request, 2 s of them since the monitor's first tick.
ServingPrimary ==
    /\ pc = [p \in Procs |-> IF p = 1 THEN "serve" ELSE "off"]
    /\ args = [p \in Procs |-> NoArg]
    /\ holds = [p \in Procs |-> p = 1]
    /\ role = [p \in Procs |-> IF p = 1 THEN "primary" ELSE "none"]
    /\ handlers = [p \in Procs |-> IF p = 1 THEN Patterns ELSE {}]
    /\ sinceLastRequest = [p \in Procs |-> IF p = 1 THEN 7 ELSE 0]
    /\ mpc = [p \in Procs |-> IF p = 1 THEN "wait" ELSE "none"]
    /\ untilTick = [p \in Procs |-> IF p = 1 THEN 3 ELSE 0]
    /\ idleDuration = [p \in Procs |-> 0]
    /\ reqs = {}
    /\ resp = [p \in Procs |-> 0]
    /\ attempts = [p \in Procs |-> 0]
    /\ launched = [p \in Procs |->
                     IF p = 1 THEN {[by |-> 1, url |-> DefaultURL]} ELSE {}]
    /\ exitCode = [p \in Procs |-> -1]

\* A request has arrived at the primary.
InitServe ==
    /\ ServingPrimary
    /\ MenuIdle
    /\ PageIdle
    /\ LockIdle
    /\ hpc = "start"
    /\ request \in Arrivals
    /\ loc = NoLoc
    /\ conn = NoConn
    /\ ret = NoRet
    /\ fetches = <<>>
    /\ response = NoResponse
    /\ browser = <<>>

NextServe ==
    \/ Dispatch
    \/ serveGopherStart
    \/ serveGopherFirst
    \/ serveGopherSecond
    \/ serveGopherWrite
    \/ HandlePHStart
    \/ HandlePHFinish
    \/ HandleSearchStart
    \/ HandleSearchFinish
    \/ HandleSearchWrite
    \/ handleFocusRun
    \/ handleHeartbeatRun
    \/ HandlerPanics
    \/ NextTransport
    \/ FormatStart
    \/ FormatLine
    \/ FormatReturn

\* ========================================================================
\* The browser's tab: the page it shows and that page's heartbeat script
\* ========================================================================
\* setInterval(..., 55000) in the script formatMenuHTML writes.
HEARTBEAT_SECONDS == 55

\* net.DialTimeout(..., TCP_TIMEOUT) and conn.SetDeadline(now + TCP_TIMEOUT).
TCP_TIMEOUT_SECONDS == 5

\* The longest a transport call takes: the dial and the exchange.
FetchSeconds == 2 * TCP_TIMEOUT_SECONDS

\* The pages a handler can answer a navigation with: "menu" is the page of
\* formatMenuHTML (a listing or the synthetic error record), "results" the
\* search frame around an embedded listing, "search" the empty search
\* frame, "rejected" the text of a 400 and "failed" that of a 502.
Outcomes(handler) ==
    CASE handler = "serveGopher"   -> {"menu", "text", "bytes"}
      [] handler = "handlePHEntry" -> {"ph", "rejected", "failed"}
      [] handler = "HandleSearch"  -> {"search", "results", "rejected", "failed"}

\* The pages that reach the browser without a transport call.
Immediate == {"search", "rejected"}

\* The pages that carry the heartbeat script: those formatMenuHTML wrote.
Emits(view) == view \in {"menu", "results"}

\* The user follows a link or sends a form: the request reaches the
\* primary and its handler starts.
Navigate(handler) ==
    /\ nav = NoNav
    /\ \E q \in Procs :
          /\ holds[q] /\ pc[q] = "serve"
          /\ sinceLastRequest' =
                IF CallsUpdateActivity(handler) THEN updateActivity(q)
                ELSE sinceLastRequest
    /\ nav' = [handler |-> handler, elapsed |-> 0]
    /\ UNCHANGED <<openPage, untilPing>>
    /\ UNCHANGED <<pc, args, holds, role, handlers, mpc, untilTick,
                   idleDuration, reqs, resp, attempts, launched, exitCode>>
    /\ UNCHANGED <<mvars, svars, kvars>>

\* The response arrives: the tab shows the new page and, when the page
\* carries the script, its interval timer starts.
Load(view) ==
    /\ nav # NoNav
    /\ view \in Outcomes(nav.handler)
    /\ nav.elapsed > 0 => view \notin Immediate
    /\ openPage' = view
    /\ untilPing' = IF Emits(view) THEN HEARTBEAT_SECONDS ELSE 0
    /\ nav' = NoNav
    /\ UNCHANGED <<lvars, mvars, svars, kvars>>

\* The interval timer of the open page fires: fetch('/heartbeat') reaches
\* handleHeartbeat.
Ping ==
    /\ Emits(openPage)
    /\ untilPing = 0
    /\ \E q \in Procs :
          /\ holds[q] /\ pc[q] = "serve"
          /\ sinceLastRequest' = updateActivity(q)
    /\ untilPing' = HEARTBEAT_SECONDS
    /\ UNCHANGED <<openPage, nav>>
    /\ UNCHANGED <<pc, args, holds, role, handlers, mpc, untilTick,
                   idleDuration, reqs, resp, attempts, launched, exitCode>>
    /\ UNCHANGED <<mvars, svars, kvars>>

\* A second passes while the monitor waits for its ticker, the page for its
\* timer and the tab for a response that needs a transport call.
PageTick ==
    /\ \E q \in Procs : holds[q] /\ pc[q] = "serve"
    /\ \A p \in Procs :
          /\ mpc[p] # "check"
          /\ mpc[p] = "wait" => untilTick[p] > 0
    /\ Emits(openPage) => untilPing > 0
    /\ nav # NoNav =>
          /\ nav.elapsed < FetchSeconds
          /\ Outcomes(nav.handler) \ Immediate # {}
    /\ sinceLastRequest' = [p \in Procs |->
          IF Alive(p) THEN sinceLastRequest[p] + 1 ELSE sinceLastRequest[p]]
    /\ untilTick' = [p \in Procs |->
          IF mpc[p] = "wait" THEN untilTick[p] - 1 ELSE untilTick[p]]
    /\ untilPing' = IF Emits(openPage) THEN untilPing - 1 ELSE untilPing
    /\ nav' = IF nav = NoNav THEN nav ELSE [nav EXCEPT !.elapsed = @ + 1]
    /\ UNCHANGED openPage
    /\ UNCHANGED <<pc, args, holds, role, handlers, mpc, idleDuration, reqs,
                   resp, attempts, launched, exitCode>>
    /\ UNCHANGED <<mvars, svars, kvars>>

\* The primary is serving and the browser it launched has not asked yet.
InitPage ==
    /\ ServingPrimary
    /\ MenuIdle
    /\ ServeIdle
    /\ PageIdle
    /\ LockIdle

NextPage ==
    \/ \E h \in {"serveGopher", "handlePHEntry", "HandleSearch"} : Navigate(h)
    \/ \E v \in {"menu", "text", "bytes", "ph", "search", "results",
                 "rejected", "failed"} : Load(v)
    \/ Ping
    \/ PageTick
    \/ \E p \in Procs : MonitorTick(p)
    \/ \E p \in Procs : MonitorCheck(p)

\* ========================================================================
\* shutdownMux: updateActivity and monitorInactivity statement by statement
\* ========================================================================
\* The process that serves.
Primary == 1

otherLife == <<pc, args, holds, role, handlers, mpc, untilTick, idleDuration,
               reqs, resp, attempts, launched, exitCode>>

\* Variant: Lock returns without waiting for the holder.
shutdownMuxLock_NoWait(g) ==
    /\ gpc[g] = "lock"
    /\ shutdownMux' = g
    /\ gpc' = [gpc EXCEPT ![g] = IF g = Monitor THEN "read" ELSE "write"]
    /\ UNCHANGED <<lvars, mvars, svars, pvars>>

\* shutdownMux.Lock() returns: the mutex was free and is now held by g.
shutdownMuxLock(g) ==
    /\ gpc[g] = "lock"
    /\ shutdownMux = NoHolder
    /\ shutdownMux' = g
    /\ gpc' = [gpc EXCEPT ![g] = IF g = Monitor THEN "read" ELSE "write"]
    /\ UNCHANGED <<lvars, mvars, svars, pvars>>

\* shutdownMux.Unlock()
shutdownMuxUnlock(g) ==
    /\ gpc[g] = "unlock"
    /\ shutdownMux' = NoHolder
    /\ gpc' = [gpc EXCEPT ![g] = IF g = Monitor THEN "compare" ELSE "body"]
    /\ UNCHANGED <<lvars, mvars, svars, pvars>>

\* A request arrives and net/http starts its handler in a goroutine of its
\* own; the handler's first statement is updateActivity(), except in
\* HandleSearch, which does not call it.
HandlerStarts(g, handler) ==
    /\ g # Monitor
    /\ gpc[g] = "off"
    /\ pc[Primary] = "serve"
    /\ gpc' = [gpc EXCEPT ![g] = IF CallsUpdateActivity(handler) THEN "lock"
                                 ELSE "body"]
    /\ UNCHANGED shutdownMux
    /\ UNCHANGED <<lvars, mvars, svars, pvars>>

\* Variant: the handler stores a time it had read before it called Lock,
\* up to a second before its write.
updateActivityWrite_StaleNow(g) ==
    /\ g # Monitor
    /\ gpc[g] = "write"
    /\ \E age \in 0..1 :
          sinceLastRequest' = [sinceLastRequest EXCEPT ![Primary] = age]
    /\ gpc' = [gpc EXCEPT ![g] = "unlock"]
    /\ UNCHANGED shutdownMux
    /\ UNCHANGED otherLife
    /\ UNCHANGED <<mvars, svars, pvars>>

\* lastRequestTime = time.Now()
updateActivityWrite(g) ==
    /\ g # Monitor
    /\ gpc[g] = "write"
    /\ sinceLastRequest' = updateActivity(Primary)
    /\ gpc' = [gpc EXCEPT ![g] = "unlock"]
    /\ UNCHANGED shutdownMux
    /\ UNCHANGED otherLife
    /\ UNCHANGED <<mvars, svars, pvars>>

\* The rest of the handler: its transport calls and its response.
HandlerReturns(g) ==
    /\ g # Monitor
    /\ gpc[g] = "body"
    /\ gpc' = [gpc EXCEPT ![g] = "off"]
    /\ UNCHANGED shutdownMux
    /\ UNCHANGED <<lvars, mvars, svars, pvars>>

\* <-ticker.C
tickerFires ==
    /\ gpc[Monitor] = "wait"
    /\ untilTick[Primary] = 0
    /\ gpc' = [gpc EXCEPT ![Monitor] = "lock"]
    /\ UNCHANGED shutdownMux
    /\ UNCHANGED <<lvars, mvars, svars, pvars>>

\* idleDuration := time.Since(lastRequestTime)
monitorRead ==
    /\ gpc[Monitor] = "read"
    /\ idleDuration' = [idleDuration EXCEPT ![Primary] = sinceLastRequest[Primary]]
    /\ mpc' = [mpc EXCEPT ![Primary] = "check"]
    /\ gpc' = [gpc EXCEPT ![Monitor] = "unlock"]
    /\ UNCHANGED shutdownMux
    /\ UNCHANGED <<pc, args, holds, role, handlers, sinceLastRequest,
                   untilTick, reqs, resp, attempts, launched, exitCode>>
    /\ UNCHANGED <<mvars, svars, pvars>>

\* if idleDuration > SHUTDOWN_TIMEOUT_SECONDS*time.Second { os.Exit(0) };
\* os.Exit ends every goroutine of the process.
monitorCompare ==
    /\ gpc[Monitor] = "compare"
    /\ IF IdleExpired(idleDuration[Primary])
       THEN /\ ProcExit(Primary, 0)
            /\ gpc' = [g \in Goroutines |-> "gone"]
            /\ shutdownMux' = NoHolder
       ELSE /\ mpc' = [mpc EXCEPT ![Primary] = "wait"]
            /\ untilTick' = [untilTick EXCEPT ![Primary] = TICKER_SECONDS]
            /\ idleDuration' = [idleDuration EXCEPT ![Primary] = 0]
            /\ gpc' = [gpc EXCEPT ![Monitor] = "wait"]
            /\ UNCHANGED shutdownMux
            /\ UNCHANGED <<pc, args, holds, role, handlers,
                           sinceLastRequest, reqs, resp, attempts, launched,
                           exitCode>>
    /\ UNCHANGED <<mvars, svars, pvars>>

\* A second passes while the monitor waits for its ticker and every handler
\* is in a transport call or has returned.
LockTick ==
    /\ gpc[Monitor] = "wait"
    /\ untilTick[Primary] > 0
    /\ \A g \in Goroutines \ {Monitor} : gpc[g] \in {"off", "body"}
    /\ sinceLastRequest' = [sinceLastRequest EXCEPT ![Primary] = @ + 1]
    /\ untilTick' = [untilTick EXCEPT ![Primary] = @ - 1]
    /\ UNCHANGED <<pc, args, holds, role, handlers, mpc, idleDuration, reqs,
                   resp, attempts, launched, exitCode>>
    /\ UNCHANGED <<mvars, svars, pvars, kvars>>

InitLock ==
    /\ ServingPrimary
    /\ MenuIdle
    /\ ServeIdle
    /\ PageIdle
    /\ shutdownMux = NoHolder
    /\ gpc = [g \in Goroutines |-> IF g = Monitor THEN "wait" ELSE "off"]

NextLock ==
    \/ \E g \in Goroutines : shutdownMuxLock(g)
    \/ \E g \in Goroutines : shutdownMuxUnlock(g)
    \/ \E g \in Goroutines, h \in {"serveGopher", "HandleSearch"} :
          HandlerStarts(g, h)
    \/ \E g \in Goroutines : updateActivityWrite(g)
    \/ \E g \in Goroutines : HandlerReturns(g)
    \/ tickerFires
    \/ monitorRead
    \/ monitorCompare
    \/ LockTick

vars == <<lvars, mvars, svars, pvars, kvars>>

Init == InitLife /\ MenuIdle /\ ServeIdle /\ PageIdle /\ LockIdle

Next == NextLife

Spec == Init /\ [][Next]_vars

SpecMenu == InitMenu /\ [][NextMenu]_vars

SpecServe == InitServe /\ [][NextServe]_vars

\* net.DialTimeout returns within its timeout, with a connection or an
\* error; a read that has its line returns; and the deadline every client
\* sets with conn.SetDeadline ends a read that the peer leaves waiting.
\* Nothing is assumed of the peer: it need not send and need not close.
FairSpecServe ==
    /\ SpecServe
    /\ WF_vars(DialFails \/ DialSucceeds)
    /\ WF_vars(GreetingRead)
    /\ WF_vars(DeadlineExpires)

SpecPage == InitPage /\ [][NextPage]_vars

SpecLock == InitLock /\ [][NextLock]_vars

\* The scheduler runs every runnable goroutine, the ticker delivers its
\* ticks, and a goroutine that waits in Lock gets the mutex: sync.Mutex
\* hands it to a waiter that has waited for more than a millisecond.
FairSpecLock ==
    /\ SpecLock
    /\ \A g \in Goroutines :
          /\ SF_vars(shutdownMuxLock(g))
          /\ WF_vars(shutdownMuxUnlock(g))
          /\ WF_vars(updateActivityWrite(g))
    /\ WF_vars(tickerFires)
    /\ WF_vars(monitorRead)
    /\ WF_vars(monitorCompare)

\* The scheduler runs every runnable goroutine and every started process:
\* each step of a main goroutine, of a monitor and of the handler goroutine
\* of a request is taken once it stays enabled.  Launches, browser requests
\* and the passing of time are not forced.
FairSpec ==
    /\ Spec
    /\ \A p \in Procs :
          /\ WF_vars(StartMonitor(p))
          /\ WF_vars(RegisterHandlers(p))
          /\ WF_vars(LaunchInitial(p))
          /\ WF_vars(SendForward(p))
          /\ WF_vars(GetReturns(p))
          /\ WF_vars(MonitorTick(p))
          /\ WF_vars(MonitorCheck(p))
    /\ \A c \in Procs \cup {Browser} :
          /\ WF_vars(\E r \in reqs : r.from = c /\ HandlerEnter(r))
          /\ WF_vars(\E r \in reqs : r.from = c /\ HandlerBody(r))
          /\ WF_vars(\E r \in reqs : r.from = c /\ HandlerRespond(r))

\* FairSpec with time that does not stop: whenever all goroutines are
\* blocked again and again, a second passes, so the ticker of
\* monitorInactivity keeps firing.
LiveSpec == FairSpec /\ SF_vars(Tick)

\* ========================================================================
\* Properties
\* ========================================================================

\* The step in which the monitor of p calls os.Exit.
MonitorExits(p) == mpc[p] = "check" /\ pc'[p] = "exited"

\* The step in which a second instance leaves http.Get and exits.
SecondaryExits(p) == pc[p] = "await" /\ pc'[p] = "exited"

\* C1: at every moment at most one process owns the local address, and a
\* process whose net.Listen failed (a second instance) never owns it, never
\* registers a handler, never starts the inactivity monitor, never calls
\* launchBrowser and is never the target of a request.
C1_SinglePrimary ==
    /\ Cardinality({p \in Procs : holds[p]}) <= 1
    /\ \A p \in Procs :
          role[p] = "secondary" =>
             /\ ~holds[p]
             /\ handlers[p] = {}
             /\ mpc[p] = "none"
             /\ pc[p] \in {"forward", "await", "exited"}
             /\ \A q \in Procs : \A l \in launched[q] : l.by # p
             /\ \A r \in reqs : r.to # p

\* A primary is serving while a second instance waits for its forward.
C1_Witness ==
    \E p, q \in Procs :
       /\ holds[p] /\ pc[p] = "serve" /\ role[p] = "primary"
       /\ role[q] = "secondary" /\ pc[q] = "await"

\* C2: the monitor exits only at a moment when more than 60 s have passed
\* since the latest reset of the activity timestamp.
C2_ExitOnlyWhenIdle ==
    [][\A p \in Procs :
          MonitorExits(p) => sinceLastRequest[p] > SHUTDOWN_TIMEOUT_SECONDS]_vars

C4_EveryRequestResets ==
    [][\A r \in reqs' :
          (r.st = "running" /\ r \notin reqs) => sinceLastRequest'[r.to] = 0]_vars

\* The local URL expected for the command line gopher://a/1/x.
C5_ExpectedURL == [host |-> <<"a">>, port |-> <<"7","0">>,
                   selector |-> <<"1","/","x">>]

C6_ForwardFailureIsFatal ==
    [][\A p \in Procs :
          (pc[p] = "await" /\ resp[p] = -1 /\ pc'[p] # pc[p]) =>
             /\ pc'[p] = "exited"
             /\ exitCode'[p] # 0
             /\ ~holds[p] /\ ~holds'[p]
             /\ role'[p] = "secondary"]_vars

\* A second instance has exited with status 1.
C6_Witness ==
    \E p \in Procs :
       pc[p] = "exited" /\ role[p] = "secondary" /\ exitCode[p] = 1

\* C7: a second instance calls http.Get once, exits with status 0 whatever
\* status the primary answered with, and always comes to its exit.
C7_OneForwardThenExit ==
    /\ [][\A p \in Procs :
             /\ attempts'[p] <= 1
             /\ (pc[p] = "await" /\ resp[p] > 0 /\ pc'[p] # pc[p]) =>
                   (pc'[p] = "exited" /\ exitCode'[p] = 0)]_vars
    /\ \A p \in Procs : (pc[p] \in {"forward", "await"}) ~> (pc[p] = "exited")

\* A second instance holds a rejection (400) of its forward.
C7_Witness ==
    \E p \in Procs : pc[p] = "await" /\ resp[p] = 400 /\ attempts[p] = 1

\* ------------------------------------------------------------------------
\* formatMenuHTML: what the reply's lines become
\* ------------------------------------------------------------------------
\* The expectations below are stated on inLines, the fields the reply was
\* made of, and by position in the text, not through Split or the trims.

RightCut == {" ", "\t", "\r"}

\* d is s without its trailing spaces, tabs and carriage returns.
IsRightTrimOf(d, s) ==
    /\ Len(d) <= Len(s)
    /\ \A k \in 1..Len(d) : d[k] = s[k]
    /\ \A k \in (Len(d) + 1)..Len(s) : s[k] \in RightCut
    /\ Len(d) > 0 => d[Len(d)] \notin RightCut

Inked(s) == {k \in 1..Len(s) : s[k] \notin WhiteSpace}

IsBlankLine(s) == Inked(s) = {}

IsTerminatorLine(s) == \E k \in 1..Len(s) : Inked(s) = {k} /\ s[k] = "."

\* The line from its first to its last non-whitespace character.
Core(s) ==
    LET ink == Inked(s) IN
    IF ink = {} THEN <<>>
    ELSE SubSeq(s, CHOOSE a \in ink : \A b \in ink : a <= b,
                   CHOOSE a \in ink : \A b \in ink : a >= b)

Contains(s, t) ==
    \E k \in 0..(Len(s) - Len(t)) : SubSeq(s, k + 1, k + Len(t)) = t

SourceLine(i) == LineText(inLines[i])

BeforeTerminator(i) == \A j \in 1..(i - 1) : ~IsTerminatorLine(SourceLine(j))

RecordsOf(i) == {k \in 1..Len(html) : html[k].kind = "record" /\ html[k].src = i}

Returned == fpc = "done"

FourFields(i) == Len(inLines[i]) = 4

\* A four-field line whose first field is a type character followed by a
\* display that is not only spaces, tabs and carriage returns.
WellFormed(i) ==
    /\ FourFields(i)
    /\ Len(inLines[i][1]) > 0
    /\ \E k \in 2..Len(inLines[i][1]) : inLines[i][1][k] \notin RightCut

\* The link the record of fields f must carry: none for '3' and 'i', the PH
\* route (port 105 when field 4 is empty) for '2', the search route for '7',
\* the navigation route with the type for every other type.
LinkTargetsLine(l, f) ==
    LET t == f[1][1] IN
    IF t \in {"3", "i"} THEN l.route = "none"
    ELSE /\ l.route = (IF t = "2" THEN "/ph/" ELSE IF t = "7" THEN "/search" ELSE "/")
         /\ l.host = f[3]
         /\ l.port = (IF t = "2" /\ f[4] = <<>> THEN <<"1","0","5">> ELSE f[4])
         /\ l.type = (IF t \in {"2", "7"} THEN "" ELSE t)

C8_RecordVerbatim(r, f) ==
    /\ r.itemType = f[1][1]
    /\ r.display = Tail(f[1])
    /\ r.selector = f[2] /\ r.host = f[3] /\ r.port = f[4]
    /\ r.link.route # "none" /\ r.link.host = f[3] /\ r.link.port = f[4]

\* C8 as stated: when the render returns, every line with four
\* tab-separated fields has yielded exactly one record whose itemType is the
\* first character of field 1, whose display is the rest of field 1, whose
\* selector, host and port are fields 2, 3 and 4, and whose link uses these
\* values.
C8_FourFieldsAsStated ==
    Returned =>
        \A i \in 1..Len(inLines) :
            FourFields(i) =>
                /\ Len(inLines[i][1]) > 0
                /\ Cardinality(RecordsOf(i)) = 1
                /\ \A k \in RecordsOf(i) : C8_RecordVerbatim(html[k], inLines[i])

\* C8, amended: every line the loop has passed that precedes the first
\* terminator line and has four fields, the first a type character followed
\* by a display with some character other than space, tab and carriage
\* return, has exactly one record: itemType the first character of field 1,
\* display the rest of field 1 without trailing spaces, tabs and carriage
\* returns, selector, host and port exactly fields 2, 3 and 4, and, for
\* every type but '3' and 'i' (which carry no link), a link to that host and
\* port (port 105 for a type '2' line with an empty field 4), never to the
\* calling context's.
C8_FourFields ==
    \A i \in 1..Len(inLines) :
        (i < idx /\ BeforeTerminator(i) /\ WellFormed(i)) =>
            /\ Cardinality(RecordsOf(i)) = 1
            /\ \A k \in RecordsOf(i) :
                LET r == html[k]
                    f == inLines[i]
                IN  /\ r.itemType = f[1][1]
                    /\ IsRightTrimOf(r.display, Tail(f[1]))
                    /\ r.selector = f[2] /\ r.host = f[3] /\ r.port = f[4]
                    /\ LinkTargetsLine(r.link, f)

\* C8's case: the render has returned a record for a four-field line whose
\* host and port differ from the context's, and its link goes there.
C8_Witness ==
    /\ Returned
    /\ \E i \in 1..Len(inLines) :
        /\ WellFormed(i) /\ BeforeTerminator(i)
        /\ inLines[i][3] # current.host /\ inLines[i][4] # current.port
        /\ \E k \in RecordsOf(i) : html[k].link.route = "/"
                                   /\ html[k].link.host = inLines[i][3]

\* A non-blank, non-terminator line of one, two or three fields.
Malformed(i) ==
    /\ Len(inLines[i]) < 4
    /\ ~IsBlankLine(SourceLine(i))
    /\ ~IsTerminatorLine(SourceLine(i))

C9_Synthetic(r) ==
    /\ r.itemType = "3"
    /\ r.selector = <<"/">>
    /\ r.host = current.host /\ r.port = current.port
    /\ r.link.route = "none"

\* C9 as stated: when the render returns, every non-blank, non-terminator
\* line with fewer than four fields has yielded exactly one synthetic record
\* (type '3', selector "/", the context's host and port) whose display
\* contains the line.
C9_MalformedAsStated ==
    Returned =>
        \A i \in 1..Len(inLines) :
            Malformed(i) =>
                /\ Cardinality(RecordsOf(i)) = 1
                /\ \A k \in RecordsOf(i) :
                    /\ C9_Synthetic(html[k])
                    /\ Contains(html[k].display, SourceLine(i))

\* C9, amended: every non-blank, non-terminator line with fewer than four
\* fields that the loop has passed and that precedes the first terminator
\* line has exactly one synthetic record: type '3', selector "/", host and
\* port the calling context's, no link, and a display that contains the line
\* without its leading and trailing whitespace.
C9_Malformed ==
    \A i \in 1..Len(inLines) :
        (i < idx /\ BeforeTerminator(i) /\ Malformed(i)) =>
            /\ Cardinality(RecordsOf(i)) = 1
            /\ \A k \in RecordsOf(i) :
                /\ C9_Synthetic(html[k])
                /\ Contains(html[k].display, Core(SourceLine(i)))

\* C9's case: the render has returned the synthetic record of a three-field
\* line that names a host of its own.
C9_Witness ==
    /\ Returned
    /\ \E i \in 1..Len(inLines) :
        /\ Malformed(i) /\ Len(inLines[i]) = 3
        /\ inLines[i][3] # current.host
        /\ \E k \in RecordsOf(i) : html[k].host = current.host

\* C10: no line content makes the render fault.
C10_RenderNeverFaults == fpc # "panic"

\* C10's case: a reply with a four-field line whose first field is empty
\* has been handed to the loop, which has reached that line.
C10_Witness ==
    /\ fpc \in {"loop", "panic"}
    /\ idx \in 1..Len(inLines)
    /\ FourFields(idx) /\ inLines[idx][1] = <<>>
    /\ ~IsBlankLine(SourceLine(idx))

\* A four-field line whose display is nothing but spaces, tabs and
\* carriage returns, on a line that is not blank.
EmptyDisplay(i) ==
    /\ FourFields(i)
    /\ Len(inLines[i][1]) > 0
    /\ \A k \in 2..Len(inLines[i][1]) : inLines[i][1][k] \in RightCut
    /\ ~IsBlankLine(SourceLine(i))
    /\ ~IsTerminatorLine(SourceLine(i))

\* C11: no record is written for a blank line, for a lone "." line or for a
\* line whose display is empty after the trailing spaces, tabs and carriage
\* returns are removed; every record written has a display that is not
\* empty (and does not end in one of these characters).
C11_NoEmptyRecords ==
    /\ \A k \in 1..Len(html) :
          html[k].kind = "record" =>
              /\ html[k].display # <<>>
              /\ html[k].display[Len(html[k].display)] \notin RightCut
              /\ html[k].src \in 1..Len(inLines)
              /\ ~IsBlankLine(SourceLine(html[k].src))
              /\ ~IsTerminatorLine(SourceLine(html[k].src))
              /\ ~EmptyDisplay(html[k].src)
    /\ \A i \in 1..Len(inLines) :
          (IsBlankLine(SourceLine(i)) \/ IsTerminatorLine(SourceLine(i))
             \/ EmptyDisplay(i)) => RecordsOf(i) = {}

\* C11's case: the render has returned after passing a blank line and a line
\* with an empty display.
C11_Witness ==
    /\ Returned
    /\ idx > Len(inLines)
    /\ \E i, j \in 1..Len(inLines) :
          /\ IsBlankLine(SourceLine(i)) /\ Len(SourceLine(i)) > 0
          /\ EmptyDisplay(j)

RecordPositions == {k \in 1..Len(html) : html[k].kind = "record"}

\* C12: the records stand in the output in the order of their source lines,
\* each line at most once, after the page shell and before the heartbeat
\* script; and a second render of the same reply with the same context
\* returns what the first returned.
C12_OrderKept ==
    /\ \A k1, k2 \in RecordPositions : k1 < k2 => html[k1].src < html[k2].src
    /\ \A k \in RecordPositions :
          \A j \in 1..Len(html) :
             /\ html[j].kind = "shell" => j < k
             /\ html[j].kind \in {"script", "close"} => k < j
    /\ (Returned /\ calls = 2) => html = firstHtml

\* C12's case: the second render of a reply has returned two records.
C12_Witness ==
    /\ Returned
    /\ calls = 2
    /\ Cardinality(RecordPositions) = 2
    /\ ~embedded

\* What serveGopher reads from the query of a link when it is followed.
Followed(l) == NavTarget(ParseQuery(RawQuery(Href(l))))

NavRecords == {k \in RecordPositions : html[k].link.route = "/"}

\* C13: for every record that carries a navigation link, host, port and
\* selector read back from the link's query by serveGopher are the record's.
C13_LinkRoundTrip ==
    \A k \in NavRecords :
        Followed(html[k].link) =
            [host |-> html[k].host, port |-> html[k].port,
             selector |-> html[k].selector]

\* C13's case: a record whose selector needs escaping has been rendered and
\* its link reads back exactly.
C13_Witness ==
    /\ Returned
    /\ \E k \in NavRecords :
          /\ \E j \in 1..Len(html[k].selector) : html[k].selector[j] = "/"
          /\ html[k].link.selector # html[k].selector
          /\ Followed(html[k].link).selector = html[k].selector
          /\ Followed(html[k].link).host = html[k].host

\* ------------------------------------------------------------------------
\* C14: when the connection of gopherRequestBytes is established and the
\* read deadline expires before the peer closes, the client returns without
\* an error and its data is what it had received.
C14_TimeoutIsSuccess ==
    [][(DeadlineExpires /\ conn.client = "gopherRequestBytes")
          => (ret'.err = "" /\ ret'.data = conn.received)]_vars

\* C14's case: gopherRequestBytes has returned from a read that ran into the
\* deadline after a part of the reply had arrived.
C14_Witness ==
    /\ conn.state = "returned"
    /\ conn.client = "gopherRequestBytes"
    /\ conn.received # <<>>
    /\ ret.err = "timeout"

\* ------------------------------------------------------------------------
\* The records of the page a handler wrote.
PageRecords == {k \in 1..Len(response.page) : response.page[k].kind = "record"}

\* serveGopher has finished a request one of whose fetches failed.
FetchFailed ==
    /\ loc.handler = "serveGopher"
    /\ hpc \in {"done", "aborted"}
    /\ ret.err # ""

\* C15: when a fetch of a navigation request fails, the answer is status 200
\* with a rendered listing of exactly one record, of type 3 and without a
\* link, rendered for the host, port and selector of the request.
C15_OneErrorRecord ==
    FetchFailed =>
        /\ hpc = "done"
        /\ response.status = 200
        /\ response.view = "menu"
        /\ Cardinality(PageRecords) = 1
        /\ \A k \in PageRecords :
              /\ response.page[k].itemType = "3"
              /\ response.page[k].link = NoLink
        /\ current = [host |-> loc.host, port |-> loc.port,
                      selector |-> loc.selector]

\* C15's case: the dial of a navigation request failed and the page with the
\* one error record, which quotes the failure, has been written.
C15_Witness ==
    /\ FetchFailed
    /\ ret.err = "connect"
    /\ Cardinality(PageRecords) = 1
    /\ \E k \in PageRecords : Contains(response.page[k].display, ret.msg)

\* ------------------------------------------------------------------------
\* The pipeline serveGopher takes for the request of a link: the type it
\* reads from the link's query, and the client of its content fetch.
LinkType(l) == GopherTypeOf(serveGopherTarget(Href(l)).gopherTypeQuery)

LinkPipeline(l) == IF isTransparentType(LinkType(l)) THEN "text" ELSE "bytes"

\* C16: the link of a record whose type is none of 0, 1, 2, 3, 7, i carries
\* that type, and serveGopher fetches its content with gopherRequestBytes;
\* the link of a record of type 0 or 1 is fetched with gopherRequest.
C16_PipelineByType ==
    \A k \in NavRecords :
        /\ LinkType(html[k].link) = html[k].itemType
        /\ LinkPipeline(html[k].link) =
              IF html[k].itemType \in {"0", "1"} THEN "text" ELSE "bytes"

\* C16's case: a record of type 9 has been rendered, and its link is read
\* back with type 9 and fetched with gopherRequestBytes.
C16_Witness ==
    /\ Returned
    /\ \E k \in NavRecords :
          /\ html[k].itemType = "9"
          /\ LinkType(html[k].link) = "9"
          /\ LinkPipeline(html[k].link) = "bytes"

\* ------------------------------------------------------------------------
\* The start of an anchor element, and how often a text holds it.
LinkTag == <<"<", "a", " ">>

Occurrences(s, t) ==
    Cardinality({k \in 0..(Len(s) - Len(t)) : SubSeq(s, k + 1, k + Len(t)) = t})

InertRecords == {k \in RecordPositions : html[k].itemType \in {"3", "i"}}

\* C17 as stated: the output written for a record of type 3 or i holds no
\* link.
C17_InertAsStated ==
    \A k \in InertRecords : ~Contains(ParagraphHTML(html[k]), LinkTag)

\* C17, amended: a record of type 3 (the synthetic record of a malformed line
\* included) or of type i carries no link, and the text written for it holds
\* no anchor but those its display text already holds.
C17_Inert ==
    \A k \in InertRecords :
        /\ html[k].link = NoLink
        /\ Occurrences(ParagraphHTML(html[k]), LinkTag) =
              Occurrences(html[k].display, LinkTag)

\* C17's case: the render has returned a type-i record and a type-3 record
\* (of a line of type 3 or of a malformed line), neither with an anchor in
\* its text.
C17_Witness ==
    /\ Returned
    /\ \E k \in InertRecords :
          /\ html[k].itemType = "i"
          /\ html[k].display # <<>>
          /\ ~Contains(ParagraphHTML(html[k]), LinkTag)
    /\ \E k \in InertRecords :
          /\ html[k].itemType = "3"
          /\ ~Contains(ParagraphHTML(html[k]), LinkTag)
          /\ \/ FourFields(html[k].src)
             \/ Malformed(html[k].src)

\* ------------------------------------------------------------------------
PHRecords == {k \in RecordPositions : html[k].link.route = "/ph/"}

\* What HandlePH reads from the request of a link: the route of the path and
\* the return parameter, before its default.
PHRouteOf(l) == ParsePHRoute(URLPath(Href(l)))

PHReturnOf(l) == Get(ParseQuery(RawQuery(Href(l))), KeyReturn)

\* C18: the link of a type-2 record leads to /ph/<host>:<port> of the record,
\* with port 105 when the record has none, and the return value HandlePH
\* reads from it is the navigation URL of the listing being rendered,
\* whether the record has a selector or not.
C18_PHLinkReturns ==
    \A k \in PHRecords :
        /\ html[k].itemType = "2"
        /\ PHRouteOf(html[k].link).host = html[k].host
        /\ PHRouteOf(html[k].link).port =
              (IF html[k].port = <<>> THEN PH_DEFAULT_PORT ELSE html[k].port)
        /\ PHReturnOf(html[k].link) = ReturnTo(current)

\* C18's case: a type-2 record without a port and without a selector has
\* been rendered, and its link reads back with port 105 and the URL of the
\* listing.
C18_Witness ==
    /\ Returned
    /\ \E k \in PHRecords :
          /\ html[k].port = <<>>
          /\ html[k].selector = <<>>
          /\ PHRouteOf(html[k].link).port = PH_DEFAULT_PORT
          /\ PHReturnOf(html[k].link) = ReturnTo(current)

\* ------------------------------------------------------------------------
\* A text of nothing but white space.
Blank(s) == \A k \in 1..Len(s) : s[k] \in WhiteSpace

\* The request fails the validation at the boundary: a POST to /ph/... or
\* to /search whose query field is blank, a /search request without host,
\* port or selector, a /focus request whose uri is absent, does not parse or
\* is not of the gopher scheme.
BoundaryInvalid(r) ==
    LET path  == URLPath(r.target)
        pairs == ParseQuery(RawQuery(r.target))
        uri   == Get(pairs, KeyUri)
    IN  \/ /\ HasPrefix(path, PHPrefix) \/ path = PathSearch
           /\ r.method = "POST"
           /\ Blank(FormValue(r, KeyQuery))
        \/ /\ path = PathSearch
           /\ \E key \in {KeyHost, KeyPort, KeySelector} : Get(pairs, key) = <<>>
        \/ /\ path = PathFocus
           /\ \/ uri = <<>>
              \/ ParseURI(uri).err
              \/ ParseURI(uri).scheme # GopherScheme

\* C19: a request that fails the validation at the boundary is answered 400,
\* and while it is handled no transport client is called and the browser is
\* not launched.
C19_ValidationShortCircuits ==
    BoundaryInvalid(request) =>
        /\ fetches = <<>>
        /\ browser = <<>>
        /\ hpc \in {"start", "recv", "done"}
        /\ hpc = "done" => response.status = 400

\* C19's case: a POST to /ph/h:105 whose query field is a lone space has been
\* answered.
C19_Witness ==
    /\ hpc = "done"
    /\ loc.handler = "handlePHEntry"
    /\ request.method = "POST"
    /\ FormValue(request, KeyQuery) # <<>>
    /\ BoundaryInvalid(request)
    /\ response.status = 400

\* ------------------------------------------------------------------------
\* A /ph/ request whose route names no host.
RouteMalformed(r) ==
    /\ HasPrefix(URLPath(r.target), PHPrefix)
    /\ CutAt(SubSeq(URLPath(r.target), Len(PHPrefix) + 1,
                    Len(URLPath(r.target))), ":").before = <<>>

\* C20: a /ph/ request whose route names no host is answered 400, and no
\* transport client is called for it.
C20_BadRouteRejected ==
    RouteMalformed(request) =>
        /\ fetches = <<>>
        /\ hpc = "done" => response.status = 400

\* C20's case: GET /ph/:105 has been answered after PHInitialGreeting was
\* called with the empty host.
C20_Witness ==
    /\ hpc = "done"
    /\ RouteMalformed(request)
    /\ Len(fetches) = 1
    /\ fetches[1].client = "PHInitialGreeting"
    /\ fetches[1].host = <<>>
    /\ fetches[1].port = PH_DEFAULT_PORT
    /\ response.status \in {200, 502}

\* ------------------------------------------------------------------------
\* The transport call of a /ph/ or /search request has returned after a
\* failure: the connection was refused, the request line could not be sent,
\* or a read ended with an error that is neither the peer's close nor the
\* deadline.
LookupFailed ==
    /\ loc.handler \in {"handlePHEntry", "HandleSearch"}
    /\ conn.state = "returned"
    /\ conn.ended \in {"connect", "write", "reset"} \/ conn.unsent

\* C21: a /ph/ or /search request whose transport call failed is answered
\* 502, and the 200 page of such a request that made a transport call is
\* written only after a call without a failure.
C21_FailureIs502 ==
    /\ (LookupFailed /\ hpc # "transport") =>
          (hpc = "done" /\ response.status = 502)
    /\ (loc.handler \in {"handlePHEntry", "HandleSearch"}
            /\ response.status = 200 /\ fetches # <<>>) => ~LookupFailed

\* C21's case: a /ph/ request has been answered 502 after its connection
\* was refused.
C21_Witness ==
    /\ hpc = "done"
    /\ loc.handler = "handlePHEntry"
    /\ LookupFailed
    /\ conn.ended = "connect"
    /\ response.status = 502

\* ------------------------------------------------------------------------
\* The uri parameter of the request, decoded.
UriOf(r) == Get(ParseQuery(RawQuery(r.target)), KeyUri)

\* The text is a gopher URI that url.Parse accepts.
GopherText(uri) ==
    /\ HasPrefix(uri, GopherScheme \o SchemeSep)
    /\ ~ParseURI(uri).err

\* C22: handleFocus answers 400 when the uri parameter is absent or is not
\* a gopher URI that parses, and 200 otherwise; with 200 it has called
\* launchBrowser once, with the local URL of the URI's host, port (70 when
\* the URI has none) and path, and with 400 it has not called it.
C22_FocusStatusAndLaunch ==
    (loc.handler = "handleFocus" /\ hpc = "done") =>
        IF GopherText(UriOf(request))
        THEN /\ response.status = 200
             /\ browser = << LocalURL(ParseURI(UriOf(request))) >>
        ELSE /\ response.status = 400
             /\ browser = <<>>

\* C22's case: /focus?uri=gopher%3A%2F%2Fa%2F1%2Fx has been answered 200
\* after one launch for host a, port 70, selector 1/x.
C22_Witness ==
    /\ loc.handler = "handleFocus"
    /\ hpc = "done"
    /\ response.status = 200
    /\ browser = << [host |-> <<"a">>, port |-> <<"7", "0">>,
                     selector |-> <<"1", "/", "x">>] >>

\* ------------------------------------------------------------------------
\* The forward of a second instance that was started without an argument.
BareForward(r) == r.path = FOCUS_ENDPOINT /\ r.from # Browser /\ ~r.uri.present

C24_HeartbeatOnlyTouchesClock ==
    [][loc'.handler = "handleHeartbeat" =>
          /\ hpc' \in {"recv", "done"}
          /\ \A p \in Procs : holds[p] => sinceLastRequest'[p] = 0
          /\ hpc' = "done" =>
                /\ response'.status = 200
                /\ response'.body = <<>>
                /\ response'.ctype = ""
          /\ conn' = NoConn /\ fetches' = <<>> /\ browser' = <<>>
          /\ UNCHANGED <<pc, args, holds, role, handlers, mpc, untilTick,
                         idleDuration, reqs, resp, attempts, launched,
                         exitCode>>
          /\ UNCHANGED mvars]_vars

\* C24's case: a request for /heartbeat has been answered by a Primary
\* whose timestamp was seven seconds old when the request arrived.
C24_Witness ==
    /\ hpc = "done"
    /\ URLPath(request.target) = PathHeartbeat
    /\ response.status = 200
    /\ \E p \in Procs : holds[p] /\ sinceLastRequest[p] = 0

\* ------------------------------------------------------------------------
\* C25: the listener is reachable only through the loopback interface: no
\* request from another address is accepted, so none gets past the accept
\* queue into a handler.
C25_LoopbackOnly ==
    request.remote # "loopback" => hpc = "start"

\* The case C25 excludes: a request for /focus that arrived from another
\* machine has been answered 200 and has launched the local browser.
C25_Witness ==
    /\ request.remote = "network"
    /\ URLPath(request.target) = PathFocus
    /\ hpc = "done"
    /\ response.status = 200
    /\ Len(browser) = 1

Arrival ==
    \/ \E rq \in BrowserRequests : BrowserRequest(rq)
    \/ \E r \in reqs : HandlerEnter(r)

\* C27: when from some point on no request arrives any more, a process that
\* owns the address comes to its exit, also when it does nothing but wait in
\* Serve.
C27_IdleTerminates ==
    \A p \in Procs :
       \/ []<><<Arrival>>_vars
       \/ (holds[p] ~> pc[p] = "exited")

\* C27's case: a primary that has served for a whole timeout and more with
\* no request in progress is at the check that ends it.
C27_Witness ==
    \E p \in Procs :
       /\ holds[p] /\ pc[p] = "serve"
       /\ reqs = {}
       /\ mpc[p] = "check"
       /\ idleDuration[p] > SHUTDOWN_TIMEOUT_SECONDS

\* ------------------------------------------------------------------------
\* C28: while a page that a navigation returned stays open in the tab, its
\* heartbeats keep the primary alive: the monitor never ends the process
\* with such a page open.
C28_OpenPageKeepsAlive ==
    [][\A p \in Procs : MonitorExits(p) => openPage = NoPage]_vars

\* The case C28 excludes: the tab shows a text document the primary
\* served, and the monitor is at the check that ends the process.
C28_Witness ==
    \E p \in Procs :
       /\ openPage = "text"
       /\ nav = NoNav
       /\ holds[p] /\ mpc[p] = "check"
       /\ idleDuration[p] > SHUTDOWN_TIMEOUT_SECONDS

\* ------------------------------------------------------------------------
\* C29: a goroutine holds shutdownMux exactly while it is at the write or
\* the read of lastRequestTime or at the Unlock that follows it, so every
\* access is made by the holder, at most one goroutine is at an access, and
\* no handler is in a transport call and the monitor is not at its exit
\* while holding it; and every goroutine that waits in Lock gets past it.
C29_LockDiscipline ==
    /\ [](\A g \in Goroutines :
             shutdownMux = g <=> gpc[g] \in {"write", "read", "unlock"})
    /\ \A g \in Goroutines : (gpc[g] = "lock") ~> (gpc[g] # "lock")

\* C29's case: a handler is at its write of lastRequestTime while the
\* monitor and the other handler wait in Lock.
C29_Witness ==
    \E g, h \in Goroutines \ {Monitor} :
       /\ g # h
       /\ gpc[g] = "write" /\ shutdownMux = g
       /\ gpc[h] = "lock"
       /\ gpc[Monitor] = "lock"

\* ------------------------------------------------------------------------
\* The launchBrowser calls p made for itself, and the URL main is expected
\* to open for the command line of p.
OwnLaunches(p) == {l \in launched[p] : l.by = p}

StartURL(a) ==
    IF a = GopherNoPort
    THEN [host |-> <<"a">>, port |-> <<"7", "0">>,
          selector |-> <<"1", "/", "x">>]
    ELSE [host |-> <<"f","r","e","e","s","h","e","l","l",".","o","r","g">>,
          port |-> <<"7", "0">>, selector |-> <<"/">>]

\* C30: a process that owns the address calls launchBrowser for itself
\* once: in the step that takes it into Serve, with its handlers registered
\* and no request handled yet, and with the local URL of its command line
\* when that is a gopher URI, else with the default target.
C30_OneLaunchAtStartup ==
    [][\A p \in Procs :
          /\ (OwnLaunches(p)' # OwnLaunches(p) /\ pc'[p] # "exited") =>
                /\ pc[p] = "launch" /\ pc'[p] = "serve"
                /\ holds[p] /\ role[p] = "primary"
                /\ handlers[p] = {"/", "/focus", "/heartbeat", "/ph/", "/search"}
                /\ OwnLaunches(p) = {}
                /\ OwnLaunches(p)' = {[by |-> p, url |-> StartURL(args[p])]}
          /\ (holds'[p] /\ pc'[p] # "serve") =>
                /\ OwnLaunches(p)' = {}
                /\ \A r \in reqs' : r.to = p => r.st = "queued"
          /\ (holds'[p] /\ pc'[p] = "serve") =>
                Cardinality(OwnLaunches(p)') = 1]_vars

\* C30's case: a primary started with gopher://a/1/x is in Serve and has
\* made its one launch, with port 70 filled in.
C30_Witness ==
    \E p \in Procs :
       /\ holds[p] /\ pc[p] = "serve"
       /\ args[p] = GopherNoPort
       /\ OwnLaunches(p) = {[by |-> p, url |-> StartURL(GopherNoPort)]}

\* ------------------------------------------------------------------------
\* The record paragraphs of an output, in order, and an output made of the
\* given paragraphs for a value of embedded.
Renderings(h) == SelectSeq(h, LAMBDA x : x.kind = "record")

Wrapped(e, rs) ==
    (IF e THEN <<>> ELSE <<Piece("shell")>>) \o rs \o <<Piece("script")>>
    \o (IF e THEN <<>> ELSE <<Piece("close")>>)

\* C31: for the same reply and context, the render with embedded = true and
\* the one with embedded = false hold the same paragraphs in the same
\* order; they differ in the page shell and the closing tags alone.
C31_EmbeddedSameRecords ==
    (Returned /\ calls = 3) =>
       /\ Renderings(html) = Renderings(firstHtml)
       /\ html = Wrapped(embedded, Renderings(firstHtml))
       /\ firstHtml = Wrapped(~embedded, Renderings(html))

\* C31's case: a reply of two records has been rendered as a page and then
\* embedded.
C31_Witness ==
    /\ Returned
    /\ calls = 3
    /\ embedded
    /\ Len(Renderings(firstHtml)) = 2
    /\ Len(html) = 3

\* ------------------------------------------------------------------------
\* A line that has a paragraph of its own when the loop reaches it.
Yields(i) == WellFormed(i) \/ Malformed(i)

\* C32: the loop ends at the first line that is a lone "."; no line from
\* there on has a record; blank lines have none and hide no other line; and
\* when the render returns, every line before that terminator that is due
\* a record has exactly one.
C32_StopsAtTerminator ==
    /\ fpc = "tail" =>
          /\ idx \in 1..Len(inLines)
          /\ IsTerminatorLine(SourceLine(idx))
          /\ BeforeTerminator(idx)
    /\ \A i \in 1..Len(inLines) :
          /\ (~BeforeTerminator(i) \/ IsTerminatorLine(SourceLine(i))
                \/ IsBlankLine(SourceLine(i))) =>
                RecordsOf(i) = {}
          /\ (fpc \in {"tail", "done"} /\ BeforeTerminator(i) /\ Yields(i)) =>
                Cardinality(RecordsOf(i)) = 1

\* C32's case: the render has returned for a reply whose first line is a
\* lone "." and whose second line would have had a record.
C32_Witness ==
    /\ Returned
    /\ \E i, j \in 1..Len(inLines) :
          /\ i < j
          /\ IsTerminatorLine(SourceLine(i))
          /\ Yields(j)
          /\ RecordsOf(j) = {}

\* ------------------------------------------------------------------------
\* C33: every call of a transport client dials a connection of its own and
\* has closed it when it returns, whatever ended the call; a call never
\* starts on a socket an earlier call left open, and none is open when the
\* handler has answered.
C33_SingleShot ==
    [][/\ conn'.state = "returned" =>
             conn'.socket = (IF conn'.ended = "connect" THEN "none" ELSE "closed")
       /\ conn'.state = "open" => conn'.socket = "open"
       /\ (conn'.state = "dial" /\ conn # conn') =>
             /\ conn.socket # "open"
             /\ conn'.socket = "none"
             /\ Len(fetches') = Len(fetches) + 1
       /\ hpc' \in {"done", "aborted"} => conn'.socket # "open"]_vars

\* C33's case: the second call of a request has returned with an error
\* after its connection broke, and its socket is closed.
C33_Witness ==
    /\ Len(fetches) = 2
    /\ conn.state = "returned"
    /\ conn.ended = "reset"
    /\ conn.socket = "closed"

\* ------------------------------------------------------------------------
\* C34: PHQuery writes its query command once and only when the peer has
\* sent a whole first line, the banner; the reply it returns is what the
\* peer sent after that line, trimmed, so the banner is no part of it; and
\* when PHQuery returns an error, which it does only when the dial or the
\* read of the banner failed, it has written nothing.
C34_BannerThenQuery ==
    [][conn'.client = "PHQuery" =>
          /\ conn'.writes <= 1
          /\ conn'.writes = 1 =>
                /\ HasNewline(conn'.wire)
                /\ conn.writes = 0 => HasNewline(conn.wire)
          /\ (conn'.state = "returned" /\ ret'.err # "") =>
                /\ conn'.writes = 0
                /\ ~HasNewline(conn'.wire)
          /\ (conn'.state = "returned" /\ ret'.err = "") =>
                /\ conn'.writes = 1
                /\ ret'.data = TrimSpace(CutAt(conn'.wire, "\n").after)]_vars

\* C34's case: the peer sent the banner line "b" and the start of an answer
\* in one segment; PHQuery has returned the answer without the banner.
C34_Witness ==
    /\ conn.client = "PHQuery"
    /\ conn.state = "returned"
    /\ conn.wire = <<"b", "\n", "x">>
    /\ conn.writes = 1
    /\ ret.err = ""
    /\ ret.data = <<"x">>

\* The peer sent no whole line before the read ended: PHQuery has returned
\* an error and has written nothing.
PHQueryWithoutBanner ==
    /\ conn.client = "PHQuery"
    /\ conn.state = "returned"
    /\ conn.wire = <<"x">>
    /\ ret.err = "read"
    /\ conn.writes = 0

\* ------------------------------------------------------------------------
\* C35: every call of a transport client returns to its caller, with a
\* reply or an error, whatever the peer does: also when it accepts the
\* connection and then neither sends nor closes.
C35_TransportReturns ==
    (conn.state \in {"dial", "open"}) ~> (conn.state = "returned")

\* C35's case: the peer accepted and sent nothing; the call of a client
\* that reads in a loop has returned when its deadline expired.
C35_Witness ==
    /\ conn.client \in {"PHQuery", "SearchQuery"}
    /\ conn.state = "returned"
    /\ conn.ended = "timeout"
    /\ conn.socket = "closed"
    /\ conn.wire = <<>>

\* ------------------------------------------------------------------------
\* C36: when serveGopher has answered a request, it has called the
\* transport once: one connection, the selector sent once.
C36_OneConnection ==
    (loc.handler = "serveGopher" /\ hpc = "done") => Len(fetches) = 1

\* C36's case: serveGopher has answered a request for a text document with
\* the reply of its second fetch; both fetches dialled the same address and
\* sent the same selector line.
C36_Witness ==
    /\ loc.handler = "serveGopher"
    /\ hpc = "done"
    /\ loc.gopherType = "0"
    /\ response.status = 200
    /\ Len(fetches) = 2
    /\ fetches[1] = fetches[2]
    /\ fetches[1].line = loc.selector \o GOPHER_REQUEST_TERMINATOR
    /\ conn = NoConn

\* A request that serveGopher has answered with one fetch was answered with
\* the error page of that fetch: whatever the type, a first fetch that
\* succeeded was followed by a second.
OneFetchOnlyOnError ==
    (loc.handler = "serveGopher" /\ hpc = "done" /\ Len(fetches) = 1) =>
        response.view = "menu"

\* ------------------------------------------------------------------------
\* The seconds that pass in a step: LockTick is the only step that moves
\* the clock, and it takes a second off the monitor's wait.
Elapsed == IF untilTick'[Primary] = untilTick[Primary] - 1 THEN 1 ELSE 0

\* C37: whatever the interleaving of the handlers and the monitor, the
\* stored lastRequestTime never moves back: its age grows by no more than
\* the time that passes in a step, and a write makes it the present.
C37_StampNeverDecreases ==
    [][pc'[Primary] = "serve" =>
          sinceLastRequest'[Primary] <= sinceLastRequest[Primary] + Elapsed]_vars

\* C37's case: two handlers are in updateActivity within the same second.
\* The one that got the mutex first has reset the stamp and is in its body;
\* the other holds the mutex now and is at its write.
C37_Witness ==
    \E g, h \in Goroutines \ {Monitor} :
       /\ g # h
       /\ gpc[h] = "body"
       /\ gpc[g] = "write" /\ shutdownMux = g
       /\ sinceLastRequest[Primary] = 0

\* ------------------------------------------------------------------------
\* Where serveGopher navigates when the URI bar of a page that
\* formatMenuHTML rendered with context c is submitted as it stands.
Resubmitted(c) ==
    LET t == serveGopherTarget(SubmitUriBar(currentGopherURI(c)))
    IN  [host |-> t.host, port |-> t.port, selector |-> t.selector]

\* C38: when serveGopher has answered with a listing, submitting the URI
\* bar of that page unchanged navigates to the host, port and selector the
\* listing was rendered with.
C38_UriBarRoundTrip ==
    (loc.handler = "serveGopher" /\ hpc = "done" /\ response.view = "menu"
        /\ ~embedded)
        => Resubmitted(current) = current

\* C38's case: the listing of selector "/s" at h:7 has been served; its URI
\* bar reads "h:7/s", and submitting it navigates to selector "s" at h:7.
C38_Witness ==
    /\ loc.handler = "serveGopher"
    /\ hpc = "done"
    /\ response.view = "menu"
    /\ response.status = 200
    /\ ~embedded
    /\ current = [host |-> <<"h">>, port |-> <<"7">>, selector |-> <<"/", "s">>]
    /\ currentGopherURI(current) = <<"h", ":", "7", "/", "s">>
    /\ Resubmitted(current) =
          [host |-> <<"h">>, port |-> <<"7">>, selector |-> <<"s">>]

\* Submitting the URI bar never changes the host or the port of a context
\* whose selector starts with a slash, and takes that one slash off the
\* selector; for a selector that does not start with a slash and is not
\* empty the port does not parse, and host, port and selector come out
\* empty.
UriBarLosesSlash ==
    (loc.handler = "serveGopher" /\ hpc = "done" /\ response.view = "menu")
        => IF current.selector # <<>> /\ Head(current.selector) = "/"
           THEN Resubmitted(current) =
                   [current EXCEPT !.selector = Tail(current.selector)]
           ELSE current.selector # <<>> =>
                   Resubmitted(current) =
                      [host |-> <<>>, port |-> <<>>, selector |-> <<>>]

====
